---- MODULE Spec2Model ----
(***************************************************************************)
(* Virtual Network Embedding: the MP_VNE engine                            *)
(* (src/src/algorithms/MP_VNE): the residual ledger of a multi-domain      *)
(* substrate, the local and global routers, commit / rollback / release,   *)
(* and the request lifecycle of MP_VNE.                                    *)
(*                                                                         *)
(* Substrate nodes and links are addressed by their position in snodes     *)
(* and slinks (the objects of src/src/types/substrate.py; dictionaries     *)
(* keyed by these objects hash by identity).  CPU and bandwidth amounts    *)
(* are integers.                                                           *)
(*                                                                         *)
(* Beside the engine (Spec, SpecPso, SpecRouter) the module has the        *)
(* baseline MC_VNM (SpecMc, src/src/algorithms/MC_VNM), the loop of        *)
(* src/main.py that feeds both engines (SpecDriver), and the simulation    *)
(* of src/src/utils/simulation.py with the resource accounting of          *)
(* BaseVNEAlgorithm on a physical network (SpecSim).                       *)
(***************************************************************************)
EXTENDS Integers, Sequences, FiniteSets, TLC

\* ------------------------------------------------------------------ bounds
\* at most MaxRequests calls of handle_mapping_request in one behaviour
MaxRequests == 2
\* handle_mapping_request is called with current_time in 0..MaxTime
MaxTime == 0
\* the particles of a search (num_particles of MP_VNE.pso, 50 in the code)
NumParticles == 2
\* the iterations of a search (num_iterations of MP_VNE.pso, 30 in the code)
NumIterations == 2
\* round(population[i][j] + velocities[i][j]) lies in -MaxRound..MaxRound
MaxRound == 2

\* --------------------------------------------------------------- substrate
\* SubstrateNode(node_id, cpu_capacity, cost_per_unit, delay)
snodes ==
  << [node_id |-> 1, cpu_capacity |-> 3, cost_per_unit |-> 1, delay |-> 0],
     [node_id |-> 2, cpu_capacity |-> 2, cost_per_unit |-> 2, delay |-> 0],
     [node_id |-> 3, cpu_capacity |-> 2, cost_per_unit |-> 1, delay |-> 0],
     [node_id |-> 4, cpu_capacity |-> 2, cost_per_unit |-> 3, delay |-> 0],
     [node_id |-> 5, cpu_capacity |-> 0, cost_per_unit |-> 1, delay |-> 0],
     [node_id |-> 6, cpu_capacity |-> 0, cost_per_unit |-> 1, delay |-> 0],
     [node_id |-> 7, cpu_capacity |-> 0, cost_per_unit |-> 1, delay |-> 0] >>

\* SubstrateLink / InterLink(src, dst, bandwidth, cost_per_unit, delay).
\* Links 1..3 and 6..8 are intra-domain links, links 4..5 inter-domain
\* links.  Links 1 and 2 are parallel; links 6..8 are a triangle of transit
\* nodes that have no CPU.  The weights make the cost of any two different
\* paths from one node differ, so that the (cost, node) tuples on the
\* routers' heaps are ordered by their cost alone.
slinks ==
  << [src |-> 1, dst |-> 2, bandwidth |-> 3, cost_per_unit |-> 1, delay |-> 1],
     [src |-> 1, dst |-> 2, bandwidth |-> 3, cost_per_unit |-> 2, delay |-> 2],
     [src |-> 3, dst |-> 4, bandwidth |-> 1, cost_per_unit |-> 4, delay |-> 4],
     [src |-> 2, dst |-> 3, bandwidth |-> 6, cost_per_unit |-> 1, delay |-> 1],
     [src |-> 2, dst |-> 4, bandwidth |-> 2, cost_per_unit |-> 2, delay |-> 2],
     [src |-> 5, dst |-> 6, bandwidth |-> 3, cost_per_unit |-> 1, delay |-> 1],
     [src |-> 6, dst |-> 7, bandwidth |-> 2, cost_per_unit |-> 1, delay |-> 2],
     [src |-> 5, dst |-> 7, bandwidth |-> 3, cost_per_unit |-> 4, delay |-> 3] >>

\* SubstrateDomain: domain_id, nodes, links, boundary_nodes
domains ==
  << [domain_id |-> 0, nodes |-> <<1, 2>>, links |-> <<1, 2>>,
      boundary_nodes |-> <<2>>],
     [domain_id |-> 1, nodes |-> <<3, 4>>, links |-> <<3>>,
      boundary_nodes |-> <<3, 4>>],
     [domain_id |-> 2, nodes |-> <<5, 6, 7>>, links |-> <<6, 7, 8>>,
      boundary_nodes |-> <<>>] >>

\* SubstrateNetwork: domains and the inter-domain links
snetwork == [domains |-> domains, links |-> <<4, 5>>]

Nodes == 1..Len(snodes)
Links == 1..Len(slinks)

Range(s) == {s[i] : i \in 1..Len(s)}

\* ---------------------------------------------------------------- requests
\* VirtualRequest: vnetwork (nodes with id, cpu_demand and permitted
\* domains; links with src, dst (positions of the virtual nodes in
\* vnetwork.nodes) and bandwidth), arrival_time, lifetime
requests ==
  << [vnetwork |->
        [nodes |-> << [id |-> 1, cpu_demand |-> 1, domains |-> {}],
                      [id |-> 2, cpu_demand |-> 2, domains |-> {}] >>,
         links |-> << [src |-> 1, dst |-> 2, bandwidth |-> 2] >>],
      arrival_time |-> 0, lifetime |-> 1],
     [vnetwork |->
        [nodes |-> << [id |-> 1, cpu_demand |-> 1, domains |-> {0}],
                      [id |-> 2, cpu_demand |-> 1, domains |-> {1}] >>,
         links |-> << [src |-> 1, dst |-> 2, bandwidth |-> 2],
                      [src |-> 1, dst |-> 2, bandwidth |-> 2],
                      [src |-> 1, dst |-> 2, bandwidth |-> 2] >>],
      arrival_time |-> 0, lifetime |-> 2],
     [vnetwork |->
        [nodes |-> << [id |-> 1, cpu_demand |-> 3, domains |-> {1}],
                      [id |-> 2, cpu_demand |-> 1, domains |-> {}],
                      [id |-> 3, cpu_demand |-> 2, domains |-> {}] >>,
         links |-> << [src |-> 2, dst |-> 1, bandwidth |-> 1] >>],
      arrival_time |-> 1, lifetime |-> 2] >>

\* -------------------------------------------------------------- the state
\* available_cpu:   SubstrateNode.available_cpu, per node
\* available_bw:    SubstrateLink/InterLink.available_bw, per link
\* active_mappings: MP_VNE._active_mappings, in insertion order
\* calls:           number of handle_mapping_request calls so far
\* last:            the last call: its arguments, outcome and pre-state
\* pso:             the local variables of a running MP_VNE.pso, with the
\*                  scores it has evaluated (seen) and the global best
\*                  score after the initialisation and each iteration (after)
\* mc:              the baseline engine MC_VNM on its own copy of the
\*                  substrate (main.py line 35): available_cpu,
\*                  available_bw, active_mappings, and its last call
\* driver:          the local variables of the loop of main.py
\* sim:             a VNESimulation.run over a BaseVNEAlgorithm
VARIABLES available_cpu, available_bw, active_mappings, calls, last, pso,
          mc, driver, sim

vars == <<available_cpu, available_bw, active_mappings, calls, last, pso,
          mc, driver, sim>>

\* a local variable: the value v is computed once and named in the body F
With(v, F(_)) == CHOOSE r \in {F(x) : x \in {v}} : TRUE

\* sum(...) of a list of numbers
RECURSIVE SumSeq(_)
SumSeq(s) == IF s = <<>> THEN 0 ELSE Head(s) + SumSeq(Tail(s))

\* float('inf') of the routers' dist tables is written -1
Less(a, b) == b = -1 \/ a < b

\* heapq.heappop: the tuple with the least cost
HeapPop(pq) == CHOOSE e \in pq : \A f \in pq : e[1] <= f[1]

OtherEnd(l, node) == IF slinks[l].dst = node THEN slinks[l].src ELSE slinks[l].dst

\* ------------------------------------------------------------ local router
\* the for loop of LocalController.shortest_path over domain.links, for the
\* popped node u; st = [dist, prev, pq]
RECURSIVE lc_relax(_, _, _, _, _, _)

\* a relaxation that does not test the residual bandwidth of the link
lc_relax_any_bw(d, u, bw_required, bw, i, st0) ==
  With(st0, LAMBDA st :
    IF i > Len(d.links) THEN st
    ELSE LET l == d.links[i]
             touches == slinks[l].src = u \/ slinks[l].dst = u
             v == IF slinks[l].src = u THEN slinks[l].dst ELSE slinks[l].src
             alt == st.dist[u] + slinks[l].delay + slinks[l].cost_per_unit
         IN IF touches /\ Less(alt, st.dist[v])
            THEN lc_relax(d, u, bw_required, bw, i + 1,
                   [dist |-> [st.dist EXCEPT ![v] = alt],
                    prev |-> [st.prev EXCEPT ![v] = l],
                    pq |-> st.pq \cup {<<alt, v>>}])
            ELSE lc_relax(d, u, bw_required, bw, i + 1, st))

lc_relax(d, u, bw_required, bw, i, st0) ==
  With(st0, LAMBDA st :
    IF i > Len(d.links) THEN st
    ELSE LET l == d.links[i]
             touches == slinks[l].src = u \/ slinks[l].dst = u
             v == IF slinks[l].src = u THEN slinks[l].dst ELSE slinks[l].src
             alt == st.dist[u] + slinks[l].delay + slinks[l].cost_per_unit
         IN IF touches /\ bw[l] >= bw_required /\ Less(alt, st.dist[v])
            THEN lc_relax(d, u, bw_required, bw, i + 1,
                   [dist |-> [st.dist EXCEPT ![v] = alt],
                    prev |-> [st.prev EXCEPT ![v] = l],
                    pq |-> st.pq \cup {<<alt, v>>}])
            ELSE lc_relax(d, u, bw_required, bw, i + 1, st))

\* the while pq loop of LocalController.shortest_path
RECURSIVE lc_loop(_, _, _, _, _)
lc_loop(d, dst, bw_required, bw, st0) ==
  With(st0, LAMBDA st :
    IF st.pq = {} THEN st
    ELSE With(HeapPop(st.pq), LAMBDA e :
           IF e[2] = dst THEN st
           ELSE lc_loop(d, dst, bw_required, bw,
                  lc_relax(d, e[2], bw_required, bw, 1,
                           [st EXCEPT !.pq = st.pq \ {e}]))))

\* path reconstruction from dst back to src; a missing prev gives []
RECURSIVE walk_back(_, _, _, _)
walk_back(prev, src, node0, path0) ==
  With(<<node0, path0>>, LAMBDA a :
    LET node == a[1]
        path == a[2]
    IN IF node = src THEN path
       ELSE IF prev[node] = 0 THEN <<>>
       ELSE walk_back(prev, src, OtherEnd(prev[node], node), <<prev[node]>> \o path))

\* LocalController.shortest_path of the domain d (prev None is written 0)
lc_shortest_path(d, src, dst, bw_required, bw) ==
  LET ns == Range(d.nodes) \cup {src}
      st0 == [dist |-> [n \in ns |-> IF n = src THEN 0 ELSE -1],
              prev |-> [n \in ns |-> 0],
              pq |-> {<<0, src>>}]
  IN With(lc_loop(d, dst, bw_required, bw, st0).prev, LAMBDA prev :
       walk_back(prev, src, dst, <<>>))

\* ----------------------------------------------------------- global router
\* GlobalController._get_domain_id: the first domain that lists the node
\* (0 when there is none; every node of the model is in a domain)
get_domain_index(node) ==
  IF \E i \in 1..Len(snetwork.domains) : node \in Range(snetwork.domains[i].nodes)
  THEN CHOOSE i \in 1..Len(snetwork.domains) :
         /\ node \in Range(snetwork.domains[i].nodes)
         /\ \A k \in 1..(i - 1) : node \notin Range(snetwork.domains[k].nodes)
  ELSE 0

\* _interdomain_shortest_path, lines 107-122: a pair of boundary nodes of
\* one domain with a non-empty local path between them makes the router
\* build the synthetic edge InterLink(src=, dst=, bandwidth=, cost_per_unit=,
\* delay=); InterLink.__init__ requires src_domain and dst_domain too, so
\* the construction raises TypeError
synthetic_edge_needed(bw_required, bw) ==
  \E k \in 1..Len(snetwork.domains) :
    LET d == snetwork.domains[k]
    IN \E i \in 1..Len(d.boundary_nodes) : \E j \in (i + 1)..Len(d.boundary_nodes) :
         lc_shortest_path(d, d.boundary_nodes[i], d.boundary_nodes[j],
                          bw_required, bw) # <<>>

\* _interdomain_shortest_path, lines 109-118: the arguments src, dst,
\* cost_per_unit (total_cost) and delay (total_delay) of the InterLink built
\* for each pair of boundary nodes of one domain that has a local path, with
\* the local path they are computed from
synthetic_edges(bw_required, bw) ==
  {e \in UNION {
       {With(lc_shortest_path(snetwork.domains[k],
                              snetwork.domains[k].boundary_nodes[ij[1]],
                              snetwork.domains[k].boundary_nodes[ij[2]],
                              bw_required, bw), LAMBDA path :
           [src |-> snetwork.domains[k].boundary_nodes[ij[1]],
            dst |-> snetwork.domains[k].boundary_nodes[ij[2]],
            path |-> path,
            delay |-> SumSeq([h \in 1..Len(path) |-> slinks[path[h]].delay]),
            cost_per_unit |-> SumSeq([h \in 1..Len(path) |->
                                       slinks[path[h]].cost_per_unit * bw_required])]) :
          ij \in {x \in (1..Len(snetwork.domains[k].boundary_nodes))
                           \X (1..Len(snetwork.domains[k].boundary_nodes)) :
                    x[1] < x[2]}} :
       k \in 1..Len(snetwork.domains)} :
     e.path # <<>>}

\* _interdomain_shortest_path, line 135: the weight of an edge of the graph
edge_weight(link, bw_required) == link.delay + link.cost_per_unit * bw_required

\* the for loop over graph.get(u, []) of _interdomain_shortest_path: the
\* adjacency list of u holds the qualifying inter-domain links at u in the
\* order of snetwork.links
RECURSIVE gc_relax(_, _, _, _, _)
gc_relax(u, bw_required, bw, i, st0) ==
  With(st0, LAMBDA st :
    IF i > Len(snetwork.links) THEN st
    ELSE LET l == snetwork.links[i]
             touches == slinks[l].src = u \/ slinks[l].dst = u
             v == IF slinks[l].src = u THEN slinks[l].dst ELSE slinks[l].src
             alt == st.dist[u] + slinks[l].delay + slinks[l].cost_per_unit * bw_required
         IN IF touches /\ bw[l] >= bw_required /\ Less(alt, st.dist[v])
            THEN gc_relax(u, bw_required, bw, i + 1,
                   [dist |-> [st.dist EXCEPT ![v] = alt],
                    prev |-> [st.prev EXCEPT ![v] = l],
                    pq |-> st.pq \cup {<<alt, v>>}])
            ELSE gc_relax(u, bw_required, bw, i + 1, st))

\* the while pq loop of _interdomain_shortest_path
RECURSIVE gc_loop(_, _, _, _)
gc_loop(dst, bw_required, bw, st0) ==
  With(st0, LAMBDA st :
    IF st.pq = {} THEN st
    ELSE With(HeapPop(st.pq), LAMBDA e :
           IF e[2] = dst THEN st
           ELSE gc_loop(dst, bw_required, bw,
                  gc_relax(e[2], bw_required, bw, 1, [st EXCEPT !.pq = st.pq \ {e}]))))

\* GlobalController._interdomain_shortest_path; the result is
\* [err, path]: err "none" with the returned list, or the exception raised.
\* prev_link has a key for every endpoint of a qualifying inter-domain link
\* only: looking up another node (line 145) raises KeyError.
interdomain_shortest_path(src_boundary, dst_boundary, bw_required, bw) ==
  LET q == {snetwork.links[i] : i \in {k \in 1..Len(snetwork.links) :
                                        bw[snetwork.links[k]] >= bw_required}}
      nodes == {slinks[l].src : l \in q} \cup {slinks[l].dst : l \in q}
      st0 == [dist |-> [n \in nodes \cup {src_boundary} |->
                          IF n = src_boundary THEN 0 ELSE -1],
              prev |-> [n \in nodes \cup {src_boundary} |-> 0],
              pq |-> {<<0, src_boundary>>}]
  IN IF synthetic_edge_needed(bw_required, bw)
     THEN [err |-> "TypeError", path |-> <<>>]
     ELSE IF dst_boundary # src_boundary /\ dst_boundary \notin nodes
     THEN [err |-> "KeyError", path |-> <<>>]
     ELSE With(gc_loop(dst_boundary, bw_required, bw, st0).prev, LAMBDA prev :
            [err |-> "none", path |-> walk_back(prev, src_boundary, dst_boundary, <<>>)])

\* sum(l.delay + l.cost_per_unit * bw_required for l in total_path)
RECURSIVE path_cost(_, _)
path_cost(path, bw_required) ==
  IF path = <<>> THEN 0
  ELSE slinks[Head(path)].delay + slinks[Head(path)].cost_per_unit * bw_required
       + path_cost(Tail(path), bw_required)

\* the two nested loops of GlobalController.shortest_path over the boundary
\* nodes of the source domain (index i) and of the destination domain
\* (index j); best = [cost, path], cost -1 for float('inf')
RECURSIVE gc_pairs(_, _, _, _, _, _, _, _, _)
gc_pairs(ds, dd, src, dst, bw_required, bw, i, j, best0) ==
  With(best0, LAMBDA best :
    IF i > Len(ds.boundary_nodes)
    THEN IF best.cost = -1 THEN [err |-> "Exception", path |-> <<>>]
         ELSE [err |-> "none", path |-> best.path]
    ELSE IF j > Len(dd.boundary_nodes)
    THEN gc_pairs(ds, dd, src, dst, bw_required, bw, i + 1, 1, best)
    ELSE LET b_src == ds.boundary_nodes[i]
             b_dst == dd.boundary_nodes[j]
         IN With(interdomain_shortest_path(b_src, b_dst, bw_required, bw), LAMBDA inter :
              IF inter.err # "none" THEN inter
              ELSE IF inter.path = <<>>
              THEN gc_pairs(ds, dd, src, dst, bw_required, bw, i, j + 1, best)
              ELSE With(lc_shortest_path(ds, src, b_src, bw_required, bw)
                          \o inter.path
                          \o lc_shortest_path(dd, b_dst, dst, bw_required, bw),
                        LAMBDA total_path :
                   With(path_cost(total_path, bw_required), LAMBDA total_cost :
                     IF Less(total_cost, best.cost)
                     THEN gc_pairs(ds, dd, src, dst, bw_required, bw, i, j + 1,
                                   [cost |-> total_cost, path |-> total_path])
                     ELSE gc_pairs(ds, dd, src, dst, bw_required, bw, i, j + 1, best)))))

\* GlobalController.shortest_path(src, dst, bw_required) on the residual
\* bandwidths bw; the result is [err, path]
shortest_path(src, dst, bw_required, bw) ==
  LET ds == snetwork.domains[get_domain_index(src)]
      dd == snetwork.domains[get_domain_index(dst)]
  IN IF ds.domain_id = dd.domain_id
     THEN [err |-> "none", path |-> lc_shortest_path(ds, src, dst, bw_required, bw)]
     ELSE gc_pairs(ds, dd, src, dst, bw_required, bw, 1, 1,
                   [cost |-> -1, path |-> <<>>])

\* ------------------------------------------------------ candidate selection
\* LocalController.get_candidates: the nodes of the domain, in order, with
\* available_cpu >= vnode.cpu_demand
RECURSIVE get_candidates(_, _, _, _)
get_candidates(d, vnode, cpu, i) ==
  IF i > Len(d.nodes) THEN <<>>
  ELSE (IF cpu[d.nodes[i]] >= vnode.cpu_demand THEN <<d.nodes[i]>> ELSE <<>>)
       \o get_candidates(d, vnode, cpu, i + 1)

\* the loop of process_request over the local controllers, for one vnode
RECURSIVE all_domains_candidates(_, _, _)
all_domains_candidates(vnode, cpu, k) ==
  IF k > Len(snetwork.domains) THEN <<>>
  ELSE get_candidates(snetwork.domains[k], vnode, cpu, 1)
       \o all_domains_candidates(vnode, cpu, k + 1)

\* GlobalController.process_request: one candidate list per virtual node
process_request(vnetwork, cpu) ==
  [j \in 1..Len(vnetwork.nodes) |-> all_domains_candidates(vnetwork.nodes[j], cpu, 1)]

\* ------------------------------------------------------------------ commit
ZeroCpu == [n \in Nodes |-> 0]
ZeroBw == [l \in Links |-> 0]

\* commit_mapping, lines 34-38: mapping is the sequence of the items
\* (vnode, snode) of the dictionary; res = [err, cpu, allocated_cpu]
RECURSIVE commit_cpu(_, _, _, _)

\* a commit that deducts the CPU without testing the available amount
commit_cpu_unchecked(mapping, i, cpu0, allocated_cpu0) ==
  With(<<cpu0, allocated_cpu0>>, LAMBDA a :
    IF i > Len(mapping) THEN [err |-> "none", cpu |-> a[1], allocated_cpu |-> a[2]]
    ELSE commit_cpu(mapping, i + 1,
           [a[1] EXCEPT ![mapping[i].snode] = @ - mapping[i].vnode.cpu_demand],
           [a[2] EXCEPT ![mapping[i].snode] = @ + mapping[i].vnode.cpu_demand]))

\* a commit that deducts the CPU first and tests the result afterwards, so
\* that the failing deduction is not in allocated_cpu
commit_cpu_deduct_first(mapping, i, cpu0, allocated_cpu0) ==
  With(<<cpu0, allocated_cpu0>>, LAMBDA a :
    IF i > Len(mapping) THEN [err |-> "none", cpu |-> a[1], allocated_cpu |-> a[2]]
    ELSE IF a[1][mapping[i].snode] < mapping[i].vnode.cpu_demand
    THEN [err |-> "InsufficientCpu",
          cpu |-> [a[1] EXCEPT ![mapping[i].snode] = @ - mapping[i].vnode.cpu_demand],
          allocated_cpu |-> a[2]]
    ELSE commit_cpu(mapping, i + 1,
           [a[1] EXCEPT ![mapping[i].snode] = @ - mapping[i].vnode.cpu_demand],
           [a[2] EXCEPT ![mapping[i].snode] = @ + mapping[i].vnode.cpu_demand]))

commit_cpu(mapping, i, cpu0, allocated_cpu0) ==
  With(<<cpu0, allocated_cpu0>>, LAMBDA a :
    LET cpu == a[1]
        allocated_cpu == a[2]
    IN IF i > Len(mapping)
       THEN [err |-> "none", cpu |-> cpu, allocated_cpu |-> allocated_cpu]
       ELSE LET snode == mapping[i].snode
                demand == mapping[i].vnode.cpu_demand
            IN IF cpu[snode] < demand
               THEN [err |-> "InsufficientCpu", cpu |-> cpu,
                     allocated_cpu |-> allocated_cpu]
               ELSE commit_cpu(mapping, i + 1, [cpu EXCEPT ![snode] = @ - demand],
                               [allocated_cpu EXCEPT ![snode] = @ + demand]))

\* commit_mapping, lines 50-54: the hops of one path
RECURSIVE commit_hops(_, _, _, _, _)
commit_hops(path, h, bandwidth, bw0, allocated_bw0) ==
  With(<<bw0, allocated_bw0>>, LAMBDA a :
    LET bw == a[1]
        allocated_bw == a[2]
    IN IF h > Len(path) THEN [err |-> "none", bw |-> bw, allocated_bw |-> allocated_bw]
       ELSE IF bw[path[h]] < bandwidth
       THEN [err |-> "InsufficientBandwidth", bw |-> bw, allocated_bw |-> allocated_bw]
       ELSE commit_hops(path, h + 1, bandwidth, [bw EXCEPT ![path[h]] = @ - bandwidth],
                        [allocated_bw EXCEPT ![path[h]] = @ + bandwidth]))

\* commit_mapping, line 48: "if not path" holds for the empty list
no_path(path) == path = <<>>

\* commit_mapping, lines 42-55: the virtual links in order, each routed on
\* the bandwidths left by the links before it
RECURSIVE commit_bw(_, _, _, _, _, _)

\* a commit that routes every virtual link on the bandwidths of before the
\* commit (bw + allocated_bw), blind to the deductions of the earlier links
commit_bw_stale(snode_of, vlinks, k, bw0, allocated_bw0, vlink_paths0) ==
  With(<<bw0, allocated_bw0, vlink_paths0>>, LAMBDA a :
    IF k > Len(vlinks)
    THEN [err |-> "none", bw |-> a[1], allocated_bw |-> a[2],
          vlink_paths |-> a[3], fail_vlink |-> 0]
    ELSE With(shortest_path(snode_of[vlinks[k].src], snode_of[vlinks[k].dst],
                            vlinks[k].bandwidth,
                            [l \in Links |-> a[1][l] + a[2][l]]), LAMBDA r :
           IF r.err # "none"
           THEN [err |-> r.err, bw |-> a[1], allocated_bw |-> a[2],
                 vlink_paths |-> a[3], fail_vlink |-> k]
           ELSE IF no_path(r.path)
           THEN [err |-> "NoPath", bw |-> a[1], allocated_bw |-> a[2],
                 vlink_paths |-> a[3], fail_vlink |-> k]
           ELSE With(commit_hops(r.path, 1, vlinks[k].bandwidth, a[1], a[2]),
                     LAMBDA hops :
                  IF hops.err # "none"
                  THEN [err |-> hops.err, bw |-> hops.bw,
                        allocated_bw |-> hops.allocated_bw,
                        vlink_paths |-> a[3], fail_vlink |-> k]
                  ELSE commit_bw(snode_of, vlinks, k + 1, hops.bw, hops.allocated_bw,
                                 Append(a[3], [vlink |-> vlinks[k], path |-> r.path])))))

commit_bw(snode_of, vlinks, k, bw0, allocated_bw0, vlink_paths0) ==
  With(<<bw0, allocated_bw0, vlink_paths0>>, LAMBDA a :
    LET bw == a[1]
        allocated_bw == a[2]
        vlink_paths == a[3]
    IN IF k > Len(vlinks)
       THEN [err |-> "none", bw |-> bw, allocated_bw |-> allocated_bw,
             vlink_paths |-> vlink_paths, fail_vlink |-> 0]
       ELSE With(shortest_path(snode_of[vlinks[k].src], snode_of[vlinks[k].dst],
                               vlinks[k].bandwidth, bw), LAMBDA r :
              IF r.err # "none"
              THEN [err |-> r.err, bw |-> bw, allocated_bw |-> allocated_bw,
                    vlink_paths |-> vlink_paths, fail_vlink |-> k]
              ELSE IF no_path(r.path)
              THEN [err |-> "NoPath", bw |-> bw, allocated_bw |-> allocated_bw,
                    vlink_paths |-> vlink_paths, fail_vlink |-> k]
              ELSE With(commit_hops(r.path, 1, vlinks[k].bandwidth, bw, allocated_bw),
                        LAMBDA hops :
                     IF hops.err # "none"
                     THEN [err |-> hops.err, bw |-> hops.bw,
                           allocated_bw |-> hops.allocated_bw,
                           vlink_paths |-> vlink_paths, fail_vlink |-> k]
                     ELSE commit_bw(snode_of, vlinks, k + 1, hops.bw, hops.allocated_bw,
                                    Append(vlink_paths,
                                           [vlink |-> vlinks[k], path |-> r.path])))))

\* a rollback that forgets the bandwidth ledger
rollback_cpu_only(cpu, bw, allocated_cpu, allocated_bw) ==
  [cpu |-> [n \in Nodes |-> cpu[n] + allocated_cpu[n]], bw |-> bw]

\* commit_mapping, lines 57-63: the rollback of the except clause
rollback(cpu, bw, allocated_cpu, allocated_bw) ==
  [cpu |-> [n \in Nodes |-> cpu[n] + allocated_cpu[n]],
   bw |-> [l \in Links |-> bw[l] + allocated_bw[l]]]

\* GlobalController.commit_mapping(mapping, vlinks) on the ledger (cpu, bw):
\* err "none" with the new ledger and the path snapshot, or the exception
\* that reaches the caller with the ledger left by the rollback.  recorded
\* counts the nodes and links with an entry in allocated_cpu / allocated_bw
\* when the exception was raised.
commit_mapping(mapping, vlinks, cpu, bw) ==
  With(commit_cpu(mapping, 1, cpu, ZeroCpu), LAMBDA c :
    With(IF c.err = "none"
         THEN commit_bw([i \in 1..Len(mapping) |-> mapping[i].snode], vlinks, 1, bw,
                        ZeroBw, <<>>)
         ELSE [err |-> c.err, bw |-> bw, allocated_bw |-> ZeroBw,
               vlink_paths |-> <<>>, fail_vlink |-> 0], LAMBDA b :
      IF b.err = "none"
      THEN [err |-> "none", cpu |-> c.cpu, bw |-> b.bw, vlink_paths |-> b.vlink_paths,
            fail_vlink |-> 0, recorded |-> 0]
      ELSE With(rollback(c.cpu, b.bw, c.allocated_cpu, b.allocated_bw), LAMBDA back :
             [err |-> b.err, cpu |-> back.cpu, bw |-> back.bw, vlink_paths |-> <<>>,
              fail_vlink |-> b.fail_vlink,
              recorded |-> Cardinality({n \in Nodes : c.allocated_cpu[n] > 0})
                           + Cardinality({l \in Links : b.allocated_bw[l] > 0})])))

\* ----------------------------------------------------------------- release
\* release_mapping, lines 72-73
RECURSIVE release_cpu(_, _, _)

\* a release that restores the CPU of the first virtual node only
release_cpu_first_only(mapping, i, cpu0) ==
  With(cpu0, LAMBDA cpu :
    IF i > Len(mapping) \/ i > 1 THEN cpu
    ELSE release_cpu(mapping, i + 1,
           [cpu EXCEPT ![mapping[i].snode] = @ + mapping[i].vnode.cpu_demand]))

release_cpu(mapping, i, cpu0) ==
  With(cpu0, LAMBDA cpu :
    IF i > Len(mapping) THEN cpu
    ELSE release_cpu(mapping, i + 1,
           [cpu EXCEPT ![mapping[i].snode] = @ + mapping[i].vnode.cpu_demand]))

\* release_mapping, lines 77-78: the hops of one stored path
RECURSIVE release_hops(_, _, _, _)

\* a release that restores the capacity of the substrate link instead of the
\* demand of the virtual link
release_hops_capacity(path, h, bandwidth, bw0) ==
  With(bw0, LAMBDA bw :
    IF h > Len(path) THEN bw
    ELSE release_hops(path, h + 1, bandwidth,
           [bw EXCEPT ![path[h]] = @ + slinks[path[h]].bandwidth]))

release_hops(path, h, bandwidth, bw0) ==
  With(bw0, LAMBDA bw :
    IF h > Len(path) THEN bw
    ELSE release_hops(path, h + 1, bandwidth, [bw EXCEPT ![path[h]] = @ + bandwidth]))

\* a release that asks the router for the path again
released_path_rerouted(item, snode_of, bw) ==
  shortest_path(snode_of[item.vlink.src], snode_of[item.vlink.dst],
                item.vlink.bandwidth, bw).path

\* release_mapping, line 77: the path whose hops are restored is the one
\* stored in vlink_paths at commit
released_path(item, snode_of, bw) == item.path

\* release_mapping, lines 76-78
RECURSIVE release_bw(_, _, _, _)
release_bw(vlink_paths, snode_of, k, bw0) ==
  With(bw0, LAMBDA bw :
    IF k > Len(vlink_paths) THEN bw
    ELSE release_bw(vlink_paths, snode_of, k + 1,
           release_hops(released_path(vlink_paths[k], snode_of, bw), 1,
                        vlink_paths[k].vlink.bandwidth, bw)))

\* GlobalController.release_mapping(mapping, vlink_paths)
release_mapping(mapping, vlink_paths, cpu, bw) ==
  [cpu |-> release_cpu(mapping, 1, cpu),
   bw |-> release_bw(vlink_paths, [i \in 1..Len(mapping) |-> mapping[i].snode], 1, bw)]

\* an expiry test that keeps a mapping whose expire_time is current_time
is_expired_strict(info, current_time) == info.expire_time < current_time

\* release_expired_requests, line 53: the test of the list comprehension
is_expired(info, current_time) == info.expire_time <= current_time

\* release_expired_requests, lines 53-56; st = [active, cpu, bw]
RECURSIVE release_each(_, _)

\* a release that reads the entry (_active_mappings[rid]) and leaves it in
\* the table
release_each_keep(expired_ids, st0) ==
  With(st0, LAMBDA st :
    IF expired_ids = <<>> THEN st
    ELSE LET rid == Head(expired_ids)
             info == CHOOSE e \in Range(st.active) : e.rid = rid
         IN With(release_mapping(info.mapping, info.vlink_paths, st.cpu, st.bw),
                 LAMBDA led :
              release_each(Tail(expired_ids),
                [active |-> st.active, cpu |-> led.cpu, bw |-> led.bw])))

release_each(expired_ids, st0) ==
  With(st0, LAMBDA st :
    IF expired_ids = <<>> THEN st
    ELSE LET rid == Head(expired_ids)
             info == CHOOSE e \in Range(st.active) : e.rid = rid
         IN With(release_mapping(info.mapping, info.vlink_paths, st.cpu, st.bw),
                 LAMBDA led :
              release_each(Tail(expired_ids),
                [active |-> SelectSeq(st.active, LAMBDA e : e.rid # rid),
                 cpu |-> led.cpu, bw |-> led.bw])))

RECURSIVE expired_ids_of(_, _)
expired_ids_of(active, current_time) ==
  IF active = <<>> THEN <<>>
  ELSE (IF is_expired(Head(active), current_time) THEN <<Head(active).rid>> ELSE <<>>)
       \o expired_ids_of(Tail(active), current_time)

\* --------------------------------------------------------------- lifecycle
\* MP_VNE.pso returns an index vector, entry j an index into candidates[j]
\* (written 1-based).  Every such vector is a possible result: when
\* random.randint draws the same vector for all particles and no mutation
\* is drawn, all velocities stay 0 and the global best is that vector.
\* With an empty candidate list random.randint(0, -1) raises ValueError.
pso_results(candidates) ==
  {p \in [1..Len(candidates) -> 1..Len(snodes)] :
     \A j \in 1..Len(candidates) : p[j] <= Len(candidates[j])}

\* handle_mapping_request, lines 26-29: the dictionary best_mapping, as the
\* sequence of its items
best_mapping(vnetwork, candidates, particle) ==
  [i \in 1..Len(vnetwork.nodes) |->
     [vnode |-> vnetwork.nodes[i], snode |-> candidates[i][particle[i]]]]

\* MP_VNE.fitness, line 110: getattr(vnetwork, "vlinks", []).  A
\* VirtualNetwork has the attributes nodes and links and no attribute vlinks,
\* so getattr returns its default, the empty list
fitness_vlinks(vnetwork) == <<>>

\* MP_VNE.fitness(particle_idx, candidates, request): node_cost + link_cost.
\* link_cost adds shortest_path_cost(src_node, dst_node, bw_required) for
\* the virtual links of fitness_vlinks; with none of them the loop of lines
\* 116-119 adds nothing to the 0.0 of line 115
fitness(particle_idx, candidates, request) ==
  LET vnodes == request.vnetwork.nodes
      vlinks == fitness_vlinks(request.vnetwork)
      mapping == [i \in 1..Len(particle_idx) |-> candidates[i][particle_idx[i]]]
      node_cost == SumSeq([i \in 1..Len(vnodes) |->
                             vnodes[i].cpu_demand * snodes[mapping[i]].cost_per_unit])
      link_cost == SumSeq([k \in 1..Len(vlinks) |-> 0])
  IN node_cost + link_cost

\* an expiry counted from the arrival of the request
expire_time_from_arrival(request, current_time) ==
  request.arrival_time + request.lifetime

\* handle_mapping_request, line 43
expire_time_of(request, current_time) == current_time + request.lifetime

\* particle is the vector pso returned and cost the cost the call returned
\* (0 when it returned none)
\* no search is running
PsoIdle ==
  [pc |-> "idle", req |-> 0, candidates |-> <<>>, population |-> <<>>, pbest |-> <<>>,
   pbest_score |-> <<>>, gbest |-> <<>>, gbest_score |-> 0, it |-> 0, i |-> 0,
   seen |-> {}, after |-> <<>>]

LastOf(op, outcome, now, req, mapping, fail_vlink, recorded, particle, cost) ==
  [op |-> op, outcome |-> outcome, now |-> now, req |-> req, mapping |-> mapping,
   fail_vlink |-> fail_vlink, recorded |-> recorded, particle |-> particle, cost |-> cost,
   pre_cpu |-> available_cpu, pre_bw |-> available_bw, pre_active |-> active_mappings]

\* MC_VNM(snetwork_mc): a fresh copy of the substrate, no mapping
McStart ==
  [cpu |-> [n \in Nodes |-> snodes[n].cpu_capacity],
   bw |-> [l \in Links |-> slinks[l].bandwidth],
   active |-> <<>>, calls |-> 0, last |-> [op |-> "init"]]

\* the loop of main.py is not running
DriverIdle == [pc |-> "idle", current_time |-> 0, pending_requests |-> <<>>,
               new_arrivals |-> <<>>]

\* no simulation is running
SimIdle == [pc |-> "idle"]

Init ==
  /\ mc = McStart
  /\ driver = DriverIdle
  /\ sim = SimIdle
  /\ available_cpu = [n \in Nodes |-> snodes[n].cpu_capacity]
  /\ available_bw = [l \in Links |-> slinks[l].bandwidth]
  /\ active_mappings = <<>>
  /\ calls = 0
  /\ pso = PsoIdle
  /\ last = [op |-> "init", outcome |-> "none", now |-> 0, req |-> 0, mapping |-> <<>>,
             fail_vlink |-> 0, recorded |-> 0, particle |-> <<>>, cost |-> 0,
             pre_cpu |-> [n \in Nodes |-> snodes[n].cpu_capacity],
             pre_bw |-> [l \in Links |-> slinks[l].bandwidth],
             pre_active |-> <<>>]

\* MP_VNE.handle_mapping_request(request, current_time); the request id
\* (uuid4) is written as the number of the call
handle_mapping_request(r, current_time) ==
  /\ calls' = calls + 1
  /\ LET request == requests[r]
         vnetwork == request.vnetwork
     IN \E candidate_nodes \in {process_request(vnetwork, available_cpu)} :
        IF \E j \in 1..Len(candidate_nodes) : candidate_nodes[j] = <<>>
        THEN /\ last' = LastOf("handle", "NoCandidate", current_time, r, <<>>, 0, 0,
                                   <<>>, 0)
             /\ UNCHANGED <<available_cpu, available_bw, active_mappings, pso>>
        ELSE \E particle \in pso_results(candidate_nodes) :
               \E mapping \in {best_mapping(vnetwork, candidate_nodes, particle)} :
               \E res \in {commit_mapping(mapping, vnetwork.links,
                                          available_cpu, available_bw)} :
                  /\ available_cpu' = res.cpu
                  /\ available_bw' = res.bw
                  /\ UNCHANGED pso
                  /\ IF res.err = "none"
                     THEN /\ active_mappings' = Append(active_mappings,
                                 [rid |-> calls + 1, mapping |-> mapping,
                                  vlinks |-> vnetwork.links,
                                  vlink_paths |-> res.vlink_paths,
                                  expire_time |-> expire_time_of(request, current_time)])
                          /\ last' = LastOf("handle", "Accepted", current_time, r,
                                            mapping, 0, 0, particle,
                                            fitness(particle, candidate_nodes, request))
                     ELSE /\ active_mappings' = active_mappings
                          /\ last' = LastOf("handle", res.err, current_time, r, mapping,
                                            res.fail_vlink, res.recorded, particle, 0)

\* a call of handle_mapping_request on the engine alone
HandleRequest(r, current_time) ==
  /\ calls < MaxRequests
  /\ handle_mapping_request(r, current_time)
  /\ UNCHANGED <<mc, driver, sim>>

\* MP_VNE.release_expired_requests(current_time)
ReleaseExpired(current_time) ==
  \E st \in {release_each(expired_ids_of(active_mappings, current_time),
                           [active |-> active_mappings, cpu |-> available_cpu,
                            bw |-> available_bw])} :
     /\ active_mappings' = st.active
     /\ available_cpu' = st.cpu
     /\ available_bw' = st.bw
     /\ last' = LastOf("release", "done", current_time, 0, <<>>, 0, 0, <<>>, 0)
     /\ UNCHANGED <<calls, pso, mc, driver, sim>>

\* the times release_expired_requests is called with: up to the latest
\* expire_time a mapping can have
MaxLifetime == CHOOSE m \in {requests[r].lifetime : r \in 1..Len(requests)} :
                 \A r \in 1..Len(requests) : requests[r].lifetime <= m

Next ==
  \/ \E r \in 1..Len(requests) : \E t \in 0..MaxTime : HandleRequest(r, t)
  \/ \E t \in 0..(MaxTime + MaxLifetime) : ReleaseExpired(t)

Spec == Init /\ [][Next]_vars

\* ------------------------------------------------------------- the search
\* MP_VNE.pso(candidates, request), step by step.  Index vectors are written
\* 1-based.  velocities[i][j] is a float that depends on the draws r1 and r2
\* of line 82; it is not kept: the rounded sum of line 88 is drawn from
\* -MaxRound..MaxRound, which covers every value the floats can give.
RoundRange == (0 - MaxRound)..MaxRound

\* min(pbest_score)
MinOf(scores) == CHOOSE m \in Range(scores) : \A x \in Range(scores) : m <= x

\* list.index(value): the first position that holds the value
IndexOf(scores, value) ==
  CHOOSE i \in 1..Len(scores) :
    scores[i] = value /\ \A k \in 1..(i - 1) : scores[k] # value

\* a velocity update that keeps the rounded sum as it is
Moves_unwrapped(candidates) ==
  {[j \in 1..Len(candidates) |-> t[j] + 1] :
     t \in [1..Len(candidates) -> RoundRange]}

\* lines 81-89: the position of a particle after the velocity update, one
\* rounded sum t[j] per coordinate, taken modulo len(candidates[j])
Moves(candidates) ==
  {[j \in 1..Len(candidates) |-> (t[j] % Len(candidates[j])) + 1] :
     t \in [1..Len(candidates) -> RoundRange]}

\* lines 91-93: with probability 0.1 one coordinate is drawn anew
Mutations(position, candidates) ==
  {position} \cup
  {[position EXCEPT ![m[1]] = m[2]] :
     m \in {x \in (1..Len(candidates)) \X (1..Len(snodes)) :
              x[2] <= Len(candidates[x[1]])}}

\* a particle-best update with the comparison reversed
pbest_update_max(score, position, best, best_score) ==
  IF score > best_score THEN [pbest |-> position, pbest_score |-> score]
  ELSE [pbest |-> best, pbest_score |-> best_score]

\* lines 96-98: the best position of one particle and its score
pbest_update(score, position, best, best_score) ==
  IF score < best_score THEN [pbest |-> position, pbest_score |-> score]
  ELSE [pbest |-> best, pbest_score |-> best_score]

\* a global-best update that takes the best position of the current
\* population, whatever its score
gbest_update_current(st) ==
  LET scores == [i \in 1..Len(st.population) |->
                   fitness(st.population[i], st.candidates, requests[st.req])]
  IN [gbest |-> st.population[IndexOf(scores, MinOf(scores))],
      gbest_score |-> MinOf(scores)]

\* lines 100-103: the global best after an iteration
gbest_update(st) ==
  LET current_best_score == MinOf(st.pbest_score)
  IN IF current_best_score < st.gbest_score
     THEN [gbest |-> st.pbest[IndexOf(st.pbest_score, current_best_score)],
           gbest_score |-> current_best_score]
     ELSE [gbest |-> st.gbest, gbest_score |-> st.gbest_score]

\* handle_mapping_request line 23 and pso lines 60-77: the candidates of the
\* request on the current ledger, the random initial population, the
\* particle bests and the global best.  With an empty candidate list
\* random.randint(0, -1) raises ValueError.
PsoStart(r) ==
  /\ pso.pc = "idle"
  /\ \E candidates \in {process_request(requests[r].vnetwork, available_cpu)} :
       IF \E j \in 1..Len(candidates) : candidates[j] = <<>>
       THEN pso' = [pso EXCEPT !.pc = "ValueError", !.req = r, !.candidates = candidates]
       ELSE \E population \in [1..NumParticles -> pso_results(candidates)] :
            \E pbest_score \in {[i \in 1..NumParticles |->
                                   fitness(population[i], candidates, requests[r])]} :
              pso' = [pc |-> "run", req |-> r, candidates |-> candidates,
                      population |-> population, pbest |-> population,
                      pbest_score |-> pbest_score,
                      gbest |-> population[IndexOf(pbest_score, MinOf(pbest_score))],
                      gbest_score |-> MinOf(pbest_score), it |-> 1, i |-> 1,
                      seen |-> Range(pbest_score), after |-> <<MinOf(pbest_score)>>]
  /\ UNCHANGED <<available_cpu, available_bw, active_mappings, calls, last,
                 mc, driver, sim>>

\* a search step that books the CPU of the mapping it evaluates
PsoParticle_booking ==
  /\ pso.pc = "run" /\ pso.i <= NumParticles
  /\ \E position \in UNION {Mutations(m, pso.candidates) : m \in Moves(pso.candidates)} :
     \E score \in {fitness(position, pso.candidates, requests[pso.req])} :
     \E b \in {pbest_update(score, position, pso.pbest[pso.i], pso.pbest_score[pso.i])} :
       /\ pso' = [pso EXCEPT !.population[pso.i] = position, !.pbest[pso.i] = b.pbest,
                             !.pbest_score[pso.i] = b.pbest_score, !.i = @ + 1,
                             !.seen = @ \cup {score}]
       /\ available_cpu' =
            [n \in Nodes |-> available_cpu[n]
               - SumSeq([v \in 1..Len(position) |->
                           IF pso.candidates[v][position[v]] = n
                           THEN requests[pso.req].vnetwork.nodes[v].cpu_demand ELSE 0])]
  /\ UNCHANGED <<available_bw, active_mappings, calls, last, mc, driver, sim>>

\* pso lines 80-98, for the particle i: its new position, the score of the
\* position and the particle best.  A position that is not an index vector
\* of the candidate lists gets no score: the search ends with IndexError.
PsoParticle ==
  /\ pso.pc = "run" /\ pso.i <= NumParticles
  /\ \E position \in UNION {Mutations(m, pso.candidates) : m \in Moves(pso.candidates)} :
     IF \A j \in 1..Len(position) : position[j] \in 1..Len(pso.candidates[j])
     THEN
       \E score \in {fitness(position, pso.candidates, requests[pso.req])} :
       \E b \in {pbest_update(score, position, pso.pbest[pso.i], pso.pbest_score[pso.i])} :
         pso' = [pso EXCEPT !.population[pso.i] = position, !.pbest[pso.i] = b.pbest,
                            !.pbest_score[pso.i] = b.pbest_score, !.i = @ + 1,
                            !.seen = @ \cup {score}]
     ELSE \* fitness, line 112: candidates[i][idx] with idx outside the list
       pso' = [pso EXCEPT !.pc = "IndexError", !.population[pso.i] = position]
  /\ UNCHANGED <<available_cpu, available_bw, active_mappings, calls, last,
                 mc, driver, sim>>

\* pso lines 100-103, at the end of the iteration it
PsoIterationEnd ==
  /\ pso.pc = "run" /\ pso.i > NumParticles /\ pso.it <= NumIterations
  /\ \E g \in {gbest_update(pso)} :
       pso' = [pso EXCEPT !.gbest = g.gbest, !.gbest_score = g.gbest_score,
                          !.it = @ + 1, !.i = IF pso.it < NumIterations THEN 1 ELSE @,
                          !.after = Append(@, g.gbest_score)]
  /\ UNCHANGED <<available_cpu, available_bw, active_mappings, calls, last,
                 mc, driver, sim>>

\* pso line 105: return gbest
PsoReturn ==
  /\ pso.pc = "run" /\ pso.it > NumIterations
  /\ pso' = [pso EXCEPT !.pc = "done"]
  /\ UNCHANGED <<available_cpu, available_bw, active_mappings, calls, last,
                 mc, driver, sim>>

NextPso ==
  \/ \E r \in 1..Len(requests) : PsoStart(r)
  \/ PsoParticle
  \/ PsoIterationEnd
  \/ PsoReturn

\* the state in which the search is followed: request 3 has been accepted
\* at time 0 with its virtual nodes on the substrate nodes 1, 2 and 4
InitPso ==
  LET request == requests[3]
      cpu == [n \in Nodes |-> snodes[n].cpu_capacity]
      bw == [l \in Links |-> slinks[l].bandwidth]
      candidates == process_request(request.vnetwork, cpu)
      particle == <<1, 2, 4>>
      mapping == best_mapping(request.vnetwork, candidates, particle)
      res == commit_mapping(mapping, request.vnetwork.links, cpu, bw)
  IN /\ available_cpu = res.cpu
     /\ available_bw = res.bw
     /\ active_mappings = << [rid |-> 1, mapping |-> mapping,
                              vlinks |-> request.vnetwork.links,
                              vlink_paths |-> res.vlink_paths,
                              expire_time |-> expire_time_of(request, 0)] >>
     /\ calls = 1
     /\ pso = PsoIdle
     /\ mc = McStart
     /\ driver = DriverIdle
     /\ sim = SimIdle
     /\ last = [op |-> "handle", outcome |-> "Accepted", now |-> 0, req |-> 3,
                mapping |-> mapping, fail_vlink |-> 0, recorded |-> 0,
                particle |-> particle, cost |-> fitness(particle, candidates, request),
                pre_cpu |-> cpu, pre_bw |-> bw, pre_active |-> <<>>]

\* one search, for the request that comes next
SpecPso == InitPso /\ [][NextPso]_vars

\* ------------------------------------------------- the routers as functions
\* bw_required of a router call lies in 1..MaxFloor
MaxFloor == 3

\* the residual bandwidths the routers are called on: every link is
\* untouched or carries one virtual link of bandwidth 2
RouterLedgers ==
  {[l \in Links |-> IF k[l] = 1 /\ slinks[l].bandwidth >= 2
                    THEN slinks[l].bandwidth - 2 ELSE slinks[l].bandwidth] :
     k \in [Links -> 0..1]}

InitRouter ==
  /\ available_bw \in RouterLedgers
  /\ available_cpu = [n \in Nodes |-> snodes[n].cpu_capacity]
  /\ active_mappings = <<>>
  /\ calls = 0
  /\ pso = PsoIdle
  /\ mc = McStart
  /\ driver = DriverIdle
  /\ sim = SimIdle
  /\ last = [op |-> "init"]

\* LocalController(domain).shortest_path(src, dst, bw_required) for two
\* nodes of the domain
LocalRoute(k, src, dst, bw_required) ==
  /\ last' = [op |-> "local", domain |-> k, src |-> src, dst |-> dst,
              bw_required |-> bw_required,
              path |-> lc_shortest_path(snetwork.domains[k], src, dst, bw_required,
                                        available_bw)]
  /\ UNCHANGED <<available_cpu, available_bw, active_mappings, calls, pso,
                 mc, driver, sim>>

\* GlobalController._interdomain_shortest_path(src_boundary, dst_boundary,
\* bw_required) for boundary nodes of two domains
InterRoute(src_boundary, dst_boundary, bw_required) ==
  /\ last' = [op |-> "inter", src |-> src_boundary, dst |-> dst_boundary,
              bw_required |-> bw_required,
              res |-> interdomain_shortest_path(src_boundary, dst_boundary,
                                                bw_required, available_bw)]
  /\ UNCHANGED <<available_cpu, available_bw, active_mappings, calls, pso,
                 mc, driver, sim>>

NextRouter ==
  \/ \E k \in 1..Len(snetwork.domains) :
       \E src \in Range(snetwork.domains[k].nodes) :
       \E dst \in Range(snetwork.domains[k].nodes) :
       \E bw_required \in 1..MaxFloor : LocalRoute(k, src, dst, bw_required)
  \/ \E ks \in 1..Len(snetwork.domains) :
       \E kd \in (1..Len(snetwork.domains)) \ {ks} :
       \E src_boundary \in Range(snetwork.domains[ks].boundary_nodes) :
       \E dst_boundary \in Range(snetwork.domains[kd].boundary_nodes) :
       \E bw_required \in 1..MaxFloor :
         InterRoute(src_boundary, dst_boundary, bw_required)

SpecRouter == InitRouter /\ [][NextRouter]_vars

\* ------------------------------------------------- the baseline MC_VNM
\* (src/src/algorithms/MC_VNM/mc_vnm.py)
\* the requests handed to the baseline: those of requests, and a request
\* whose two virtual nodes are bound to different domains and joined by one
\* virtual link
baseline_requests ==
  requests \o
  << [vnetwork |->
        [nodes |-> << [id |-> 1, cpu_demand |-> 1, domains |-> {0}],
                      [id |-> 2, cpu_demand |-> 1, domains |-> {1}] >>,
         links |-> << [src |-> 1, dst |-> 2, bandwidth |-> 2] >>],
      arrival_time |-> 0, lifetime |-> 1] >>

\* node_mapping, lines 50-56: the candidates of one virtual node, domain by
\* domain from the domain k on
RECURSIVE mc_candidates(_, _, _)
mc_candidates(vnode, cpu, k) ==
  IF k > Len(snetwork.domains) THEN <<>>
  ELSE LET domain == snetwork.domains[k]
       IN (IF vnode.domains # {} /\ domain.domain_id \notin vnode.domains
           THEN <<>>
           ELSE SelectSeq(domain.nodes, LAMBDA snode : cpu[snode] >= vnode.cpu_demand))
          \o mc_candidates(vnode, cpu, k + 1)

\* max(candidates, key=lambda n: n.available_cpu): the first candidate that
\* has the largest available_cpu
chosen_of(candidates, cpu) ==
  candidates[CHOOSE i \in 1..Len(candidates) :
               /\ \A k \in 1..Len(candidates) : cpu[candidates[k]] <= cpu[candidates[i]]
               /\ \A k \in 1..(i - 1) : cpu[candidates[k]] < cpu[candidates[i]]]

\* MC_VNM.node_mapping(vnetwork): the items (vnode, snode) of the mapping it
\* returns, none when a virtual node has no candidate.  Every virtual node
\* is placed on the available_cpu the substrate has at the start of the call
mc_node_mapping(vnetwork, cpu) ==
  IF \E i \in 1..Len(vnetwork.nodes) : mc_candidates(vnetwork.nodes[i], cpu, 1) = <<>>
  THEN <<>>
  ELSE [i \in 1..Len(vnetwork.nodes) |->
          [vnode |-> vnetwork.nodes[i],
           snode |-> chosen_of(mc_candidates(vnetwork.nodes[i], cpu, 1), cpu)]]

\* the links kruskal_path looks at, lines 107-115: those of the domains,
\* then the inter-domain links
RECURSIVE domain_links_from(_)
domain_links_from(k) ==
  IF k > Len(snetwork.domains) THEN <<>>
  ELSE snetwork.domains[k].links \o domain_links_from(k + 1)

\* valid_links.sort(key=cost_per_unit), line 134: a stable sort
RECURSIVE sort_by_cost(_)
sort_by_cost(links) ==
  IF links = <<>> THEN <<>>
  ELSE With(sort_by_cost(SubSeq(links, 1, Len(links) - 1)), LAMBDA sorted :
         LET x == links[Len(links)]
         IN SelectSeq(sorted, LAMBDA l : slinks[l].cost_per_unit <= slinks[x].cost_per_unit)
            \o <<x>>
            \o SelectSeq(sorted, LAMBDA l : slinks[l].cost_per_unit > slinks[x].cost_per_unit))

\* kruskal_path, lines 135-140: the loop over the sorted links from the
\* i-th on; st = [parent, tree_links], parent[n] the root find(n) returns
RECURSIVE kruskal_tree(_, _, _, _, _)
kruskal_tree(links, i, src, dst, st0) ==
  With(st0, LAMBDA st :
    IF i > Len(links) THEN st.tree_links
    ELSE LET link == links[i]
             pu == st.parent[slinks[link].src]
             pv == st.parent[slinks[link].dst]
         IN With(IF pu = pv THEN st
                 ELSE [parent |-> [n \in Nodes |-> IF st.parent[n] = pu THEN pv
                                                   ELSE st.parent[n]],
                       tree_links |-> Append(st.tree_links, link)], LAMBDA st1 :
              IF st1.parent[src] = st1.parent[dst] THEN st1.tree_links
              ELSE kruskal_tree(links, i + 1, src, dst, st1)))

\* kruskal_path, lines 148-158: the breadth-first search over tree_links;
\* queue holds the pairs (node, path); the result is [found, path]
RECURSIVE tree_bfs(_, _, _, _)
tree_bfs(tree_links, dst, queue0, visited0) ==
  With(<<queue0, visited0>>, LAMBDA a :
    LET queue == a[1]
        node == Head(queue)[1]
        path == Head(queue)[2]
        visited == a[2] \cup {node}
        adj == SelectSeq(tree_links, LAMBDA l : node \in {slinks[l].src, slinks[l].dst})
        fresh == SelectSeq(adj, LAMBDA l : OtherEnd(l, node) \notin visited)
    IN IF queue = <<>> THEN [found |-> FALSE, path |-> <<>>]
       ELSE IF node = dst THEN [found |-> TRUE, path |-> path]
       ELSE tree_bfs(tree_links, dst,
                     Tail(queue) \o [h \in 1..Len(fresh) |->
                                       <<OtherEnd(fresh[h], node), Append(path, fresh[h])>>],
                     visited))

\* MC_VNM.kruskal_path(src, dst, bandwidth, used_bw_links) on the residual
\* bandwidths bw; the result is [found, path], found FALSE for None
kruskal_path(src, dst, bandwidth, used_bw_links, bw) ==
  IF src = dst THEN [found |-> TRUE, path |-> <<>>]
  ELSE With(SelectSeq(domain_links_from(1) \o snetwork.links,
                      LAMBDA link : bw[link] - used_bw_links[link] >= bandwidth),
            LAMBDA valid_links :
         IF valid_links = <<>> THEN [found |-> FALSE, path |-> <<>>]
         ELSE With(kruskal_tree(sort_by_cost(valid_links), 1, src, dst,
                                [parent |-> [n \in Nodes |-> n], tree_links |-> <<>>]),
                   LAMBDA tree_links :
                tree_bfs(tree_links, dst, << <<src, <<>> >> >>, {})))

\* link_mapping, lines 79-81: the tentative deduction on the hops of a path
RECURSIVE tentative_hops(_, _, _, _, _)
tentative_hops(path, h, bandwidth, bw0, used0) ==
  With(<<bw0, used0>>, LAMBDA a :
    IF h > Len(path) THEN [bw |-> a[1], used_bw_links |-> a[2]]
    ELSE tentative_hops(path, h + 1, bandwidth,
                        [a[1] EXCEPT ![path[h]] = @ - bandwidth],
                        [a[2] EXCEPT ![path[h]] = @ + bandwidth]))

\* MC_VNM.link_mapping(vnetwork, node_mapping), from the k-th virtual link
\* on; the result is [ok, bw, result], result the items (vlink, path).  On
\* an exception the tentative deductions are given back (lines 85-89); on
\* success they stay on the links
RECURSIVE mc_link_mapping(_, _, _, _, _, _)
mc_link_mapping(vlinks, snode_of, k, bw0, used0, result0) ==
  With(<<bw0, used0, result0>>, LAMBDA a :
    IF k > Len(vlinks) THEN [ok |-> TRUE, bw |-> a[1], result |-> a[3]]
    ELSE With(kruskal_path(snode_of[vlinks[k].src], snode_of[vlinks[k].dst],
                           vlinks[k].bandwidth, a[2], a[1]), LAMBDA r :
           IF ~r.found
           THEN [ok |-> FALSE, bw |-> [l \in Links |-> a[1][l] + a[2][l]],
                 result |-> <<>>]
           ELSE With(tentative_hops(r.path, 1, vlinks[k].bandwidth, a[1], a[2]),
                     LAMBDA t :
                  mc_link_mapping(vlinks, snode_of, k + 1, t.bw, t.used_bw_links,
                                  Append(a[3], [vlink |-> vlinks[k], path |-> r.path])))))

\* reserve_resources, lines 165-166
RECURSIVE reserve_cpu(_, _, _)
reserve_cpu(node_mapping, i, cpu0) ==
  With(cpu0, LAMBDA cpu :
    IF i > Len(node_mapping) THEN cpu
    ELSE reserve_cpu(node_mapping, i + 1,
           [cpu EXCEPT ![node_mapping[i].snode] = @ - node_mapping[i].vnode.cpu_demand]))

\* reserve_resources, lines 168-169: the hops of one path
RECURSIVE reserve_hops(_, _, _, _)
reserve_hops(path, h, bandwidth, bw0) ==
  With(bw0, LAMBDA bw :
    IF h > Len(path) THEN bw
    ELSE reserve_hops(path, h + 1, bandwidth, [bw EXCEPT ![path[h]] = @ - bandwidth]))

\* reserve_resources, lines 167-169
RECURSIVE reserve_bw(_, _, _)
reserve_bw(link_mapping, k, bw0) ==
  With(bw0, LAMBDA bw :
    IF k > Len(link_mapping) THEN bw
    ELSE reserve_bw(link_mapping, k + 1,
           reserve_hops(link_mapping[k].path, 1, link_mapping[k].vlink.bandwidth, bw)))

\* MC_VNM.compute_cost(node_mapping, link_mapping)
compute_cost(node_mapping, link_mapping) ==
  SumSeq([i \in 1..Len(node_mapping) |->
            snodes[node_mapping[i].snode].cost_per_unit * node_mapping[i].vnode.cpu_demand])
  + SumSeq([k \in 1..Len(link_mapping) |->
              SumSeq([h \in 1..Len(link_mapping[k].path) |->
                        slinks[link_mapping[k].path[h]].cost_per_unit
                          * link_mapping[k].vlink.bandwidth])])

\* the record of a call of the baseline, with the state before it
McLastOf(st, op, outcome, now, req, node_mapping, link_mapping, cost, released) ==
  [op |-> op, outcome |-> outcome, now |-> now, req |-> req,
   node_mapping |-> node_mapping, link_mapping |-> link_mapping, cost |-> cost,
   released |-> released,
   pre_cpu |-> st.cpu, pre_bw |-> st.bw, pre_active |-> st.active]

\* MC_VNM.handle_mapping_request(vnetwork, current_time, lifetime) in the
\* engine state st; r names the request, the request id (uuid4) is written
\* as the number of the call.  deepcopy (lines 38-39) copies the substrate
\* nodes and links the mapping refers to: the entry keeps the available_cpu
\* and available_bw these copies hold (cpu_copy, bw_copy)
mc_handle_mapping_request(vnetwork, current_time, lifetime, r, st) ==
  With(mc_node_mapping(vnetwork, st.cpu), LAMBDA nm :
    IF nm = <<>>
    THEN [st EXCEPT !.calls = @ + 1,
                    !.last = McLastOf(st, "handle", "NodeMappingFailed", current_time, r,
                                      <<>>, <<>>, 0, <<>>)]
    ELSE With(mc_link_mapping(vnetwork.links, [i \in 1..Len(nm) |-> nm[i].snode],
                              1, st.bw, ZeroBw, <<>>), LAMBDA lm :
           IF ~lm.ok
           THEN [st EXCEPT !.calls = @ + 1, !.bw = lm.bw,
                           !.last = McLastOf(st, "handle", "LinkMappingFailed",
                                             current_time, r, nm, <<>>, 0, <<>>)]
           ELSE With(<<reserve_cpu(nm, 1, st.cpu), reserve_bw(lm.result, 1, lm.bw)>>,
                     LAMBDA a :
                  [cpu |-> a[1], bw |-> a[2], calls |-> st.calls + 1,
                   active |-> Append(st.active,
                                [rid |-> st.calls + 1, node_mapping |-> nm,
                                 link_mapping |-> lm.result,
                                 expire_time |-> current_time + lifetime,
                                 cpu_copy |-> a[1], bw_copy |-> a[2]]),
                   last |-> McLastOf(st, "handle", "Accepted", current_time, r, nm,
                                     lm.result, compute_cost(nm, lm.result), <<>>)])))

\* release_expired_requests, lines 184-185, on the node copies of an entry
RECURSIVE mc_release_cpu(_, _, _)
mc_release_cpu(node_mapping, i, cpu0) ==
  With(cpu0, LAMBDA cpu :
    IF i > Len(node_mapping) THEN cpu
    ELSE mc_release_cpu(node_mapping, i + 1,
           [cpu EXCEPT ![node_mapping[i].snode] = @ + node_mapping[i].vnode.cpu_demand]))

\* release_expired_requests, lines 188-189: link.available_bw grows by
\* getattr(link, "bandwidth", 0), the bandwidth attribute of the substrate
\* link
RECURSIVE mc_release_hops(_, _, _)
mc_release_hops(path, h, bw0) ==
  With(bw0, LAMBDA bw :
    IF h > Len(path) THEN bw
    ELSE mc_release_hops(path, h + 1,
           [bw EXCEPT ![path[h]] = @ + slinks[path[h]].bandwidth]))

\* release_expired_requests, lines 187-189, on the link copies of an entry
RECURSIVE mc_release_bw(_, _, _)
mc_release_bw(link_mapping, k, bw0) ==
  With(bw0, LAMBDA bw :
    IF k > Len(link_mapping) THEN bw
    ELSE mc_release_bw(link_mapping, k + 1, mc_release_hops(link_mapping[k].path, 1, bw)))

\* MC_VNM.release_expired_requests(current_time) in the engine state st:
\* the expired entries are popped, and the amounts are added to the copies
\* the popped entry holds; self.substrate is not touched
mc_release_expired_requests(current_time, st) ==
  LET expired == SelectSeq(st.active, LAMBDA info : info.expire_time <= current_time)
  IN [st EXCEPT
        !.active = SelectSeq(st.active, LAMBDA info : ~(info.expire_time <= current_time)),
        !.last = McLastOf(st, "release", "done", current_time, 0, <<>>, <<>>, 0,
                   [e \in 1..Len(expired) |->
                      [expired[e] EXCEPT
                         !.cpu_copy = mc_release_cpu(expired[e].node_mapping, 1, @),
                         !.bw_copy = mc_release_bw(expired[e].link_mapping, 1, @)]])]

\* a call of handle_mapping_request on the baseline alone
McHandle(r, current_time) ==
  /\ mc.calls < MaxRequests
  /\ mc' = mc_handle_mapping_request(baseline_requests[r].vnetwork, current_time,
                                     baseline_requests[r].lifetime, r, mc)
  /\ UNCHANGED <<available_cpu, available_bw, active_mappings, calls, last, pso,
                 driver, sim>>

\* a call of release_expired_requests on the baseline alone
McRelease(current_time) ==
  /\ mc' = mc_release_expired_requests(current_time, mc)
  /\ UNCHANGED <<available_cpu, available_bw, active_mappings, calls, last, pso,
                 driver, sim>>

NextMc ==
  \/ \E r \in 1..Len(baseline_requests) : \E t \in 0..MaxTime : McHandle(r, t)
  \/ \E t \in 0..(MaxTime + MaxLifetime) : McRelease(t)

\* the baseline engine on its own
SpecMc == Init /\ [][NextMc]_vars

\* ------------------------------------------------- the driver loop
\* (src/main.py, one dataset)
\* virtual_requests.sort(key = arrival_time), line 38: a stable sort, written
\* as the insertion of each request behind those that arrive no later
RECURSIVE sort_by_arrival(_)
sort_by_arrival(ids) ==
  IF ids = <<>> THEN <<>>
  ELSE LET rest == sort_by_arrival(SubSeq(ids, 1, Len(ids) - 1))
           x == ids[Len(ids)]
           before == SelectSeq(rest, LAMBDA y :
                       requests[y].arrival_time <= requests[x].arrival_time)
           after == SelectSeq(rest, LAMBDA y :
                       requests[y].arrival_time > requests[x].arrival_time)
       IN before \o <<x>> \o after

\* the datasets the loop is run on: the requests of requests in any order,
\* each at most once
datasets ==
  {d \in UNION {[1..n -> 1..Len(requests)] : n \in 1..Len(requests)} :
     \A i, j \in 1..Len(d) : i # j => d[i] # d[j]}

\* lines 34-45: both engines on their own copy of the substrate, the
\* requests sorted by arrival time, the clock at 0
InitDriver ==
  /\ mc = McStart
  /\ driver \in {[pc |-> "while", current_time |-> 0,
                   pending_requests |-> sort_by_arrival(d),
                   new_arrivals |-> <<>>] : d \in datasets}
  /\ sim = SimIdle
  /\ available_cpu = [n \in Nodes |-> snodes[n].cpu_capacity]
  /\ available_bw = [l \in Links |-> slinks[l].bandwidth]
  /\ active_mappings = <<>>
  /\ calls = 0
  /\ pso = PsoIdle
  /\ last = [op |-> "init", outcome |-> "none", now |-> 0, req |-> 0, mapping |-> <<>>,
             fail_vlink |-> 0, recorded |-> 0, particle |-> <<>>, cost |-> 0,
             pre_cpu |-> [n \in Nodes |-> snodes[n].cpu_capacity],
             pre_bw |-> [l \in Links |-> slinks[l].bandwidth],
             pre_active |-> <<>>]

\* lines 54-55: the test of the loop and the requests that have arrived
DriverWhile ==
  /\ driver.pc = "while"
  /\ IF driver.pending_requests = <<>>
     THEN driver' = [driver EXCEPT !.pc = "done"]
     ELSE driver' = [driver EXCEPT
            !.pc = "for",
            !.new_arrivals = SelectSeq(driver.pending_requests, LAMBDA r :
                               requests[r].arrival_time <= driver.current_time)]
  /\ UNCHANGED <<available_cpu, available_bw, active_mappings, calls, last, pso,
                 mc, sim>>

\* lines 57-96: one request that has arrived is handed to both engines, an
\* exception of either is swallowed, and the request leaves pending_requests
DriverArrival ==
  /\ driver.pc = "for"
  /\ driver.new_arrivals # <<>>
  /\ LET req == Head(driver.new_arrivals)
     IN /\ handle_mapping_request(req, driver.current_time)
        /\ mc' = mc_handle_mapping_request(requests[req].vnetwork, driver.current_time,
                                           requests[req].lifetime, req, mc)
        /\ driver' = [driver EXCEPT
              !.new_arrivals = Tail(@),
              !.pending_requests = SelectSeq(@, LAMBDA r : r # req)]
  /\ UNCHANGED sim

\* lines 99-100: at the end of an iteration the baseline releases what has
\* expired and the clock advances by time_step
DriverTick ==
  /\ driver.pc = "for"
  /\ driver.new_arrivals = <<>>
  /\ mc' = mc_release_expired_requests(driver.current_time, mc)
  /\ driver' = [driver EXCEPT !.pc = "while", !.current_time = @ + 1]
  /\ UNCHANGED <<available_cpu, available_bw, active_mappings, calls, last, pso, sim>>

NextDriver ==
  \/ DriverWhile
  \/ DriverArrival
  \/ DriverTick

\* the loop runs until pending_requests is empty: no iteration is put off
\* for ever
SpecDriver == InitDriver /\ [][NextDriver]_vars /\ WF_vars(NextDriver)

\* ------------------------------------------------- the simulation
\* (src/src/utils/simulation.py, src/src/algorithms/base.py,
\*  src/src/algorithms/mp_vne.py, src/src/utils/evaluator.py)
\* The physical network of the simulation, as DatasetGenerator builds one:
\* nodes 1, 2, 3 in domain 0 and node 4 in domain 1. A physical node is an
\* object with an identity; it is written as its index in pnodes.
pnodes ==
  << [external_id |-> 0, domain_id |-> 0, resource |-> 3, cost_per_unit |-> 1],
     [external_id |-> 1, domain_id |-> 0, resource |-> 2, cost_per_unit |-> 2],
     [external_id |-> 2, domain_id |-> 0, resource |-> 2, cost_per_unit |-> 1],
     [external_id |-> 3, domain_id |-> 1, resource |-> 3, cost_per_unit |-> 1] >>

PNodes == 1..Len(pnodes)

\* The PhysicalLink objects. An intra-domain link is one object that sits at
\* intra_links[i][j] and at intra_links[j][i]; an inter-domain link is two
\* objects, link_ij in the inter_links of the network and of the source
\* domain, link_ji in the inter_links of the destination domain. The delays
\* are powers of two, so that no two paths have the same total delay.
plinks ==
  << [src |-> 1, dest |-> 2, bandwidth |-> 3, cost_per_unit |-> 1, delay |-> 1,
      kind |-> "intra"],
     [src |-> 2, dest |-> 3, bandwidth |-> 4, cost_per_unit |-> 1, delay |-> 2,
      kind |-> "intra"],
     [src |-> 1, dest |-> 3, bandwidth |-> 2, cost_per_unit |-> 2, delay |-> 4,
      kind |-> "intra"],
     [src |-> 3, dest |-> 4, bandwidth |-> 3, cost_per_unit |-> 1, delay |-> 8,
      kind |-> "link_ij"],
     [src |-> 4, dest |-> 3, bandwidth |-> 3, cost_per_unit |-> 1, delay |-> 8,
      kind |-> "link_ji"] >>

PLinks == 1..Len(plinks)

\* the number of domains of the physical network
NumPDomains == 2

\* None, where the code has no link
NoLink == [src |-> 0, dest |-> 0, bandwidth |-> 0]

\* The virtual networks of the requests, as _create_virtual_network builds
\* them: links is the matrix of VirtualLink, with a link of the same
\* bandwidth at [i][j] and at [j][i]. A virtual node is written as its index.
vnetworks ==
  << [nodes |-> << [id |-> 0, resource |-> 1, candidate_domains |-> <<0>>],
                   [id |-> 1, resource |-> 1, candidate_domains |-> <<0>>] >>,
      links |-> << <<NoLink, [src |-> 1, dest |-> 2, bandwidth |-> 2]>>,
                   <<[src |-> 2, dest |-> 1, bandwidth |-> 2], NoLink>> >>],
     [nodes |-> << [id |-> 0, resource |-> 2, candidate_domains |-> <<0>>],
                   [id |-> 1, resource |-> 1, candidate_domains |-> <<1>>] >>,
      links |-> << <<NoLink, [src |-> 1, dest |-> 2, bandwidth |-> 1]>>,
                   <<[src |-> 2, dest |-> 1, bandwidth |-> 1], NoLink>> >>],
     [nodes |-> << [id |-> 0, resource |-> 3, candidate_domains |-> <<>>] >>,
      links |-> << <<NoLink>> >>] >>

\* the VNERequest objects a test case is made of
vne_requests ==
  << [request_id |-> 0, virtual_network |-> vnetworks[1], arrival_time |-> 0,
      duration |-> 2],
     [request_id |-> 1, virtual_network |-> vnetworks[2], arrival_time |-> 1,
      duration |-> 1],
     [request_id |-> 2, virtual_network |-> vnetworks[3], arrival_time |-> 0,
      duration |-> 1],
     [request_id |-> 3, virtual_network |-> vnetworks[1], arrival_time |-> 1,
      duration |-> 2] >>

\* VNERequest.end_time
end_time(request) == request.arrival_time + request.duration

\* the longest list of requests a simulation is run on
MaxSimRequests == 2

\* the number of paths construct_link_mapping asks for
K == 3

\* evaluator.find_link / BaseVNEAlgorithm._find_link: the link object between
\* two physical nodes, 0 for None
find_link(node1, node2) ==
  LET intra == {l \in PLinks : /\ plinks[l].kind = "intra"
                               /\ {plinks[l].src, plinks[l].dest} = {node1, node2}
                               /\ node1 # node2}
      network_inter == {l \in PLinks : /\ plinks[l].kind = "link_ij"
                                       /\ plinks[l].src = node1
                                       /\ plinks[l].dest = node2}
      domain_inter == {l \in PLinks : /\ plinks[l].kind \in {"link_ij", "link_ji"}
                                      /\ plinks[l].src = node1
                                      /\ plinks[l].dest = node2}
  IN IF pnodes[node1].domain_id = pnodes[node2].domain_id /\ intra # {}
     THEN CHOOSE l \in intra : TRUE
     ELSE IF network_inter # {} THEN CHOOSE l \in network_inter : TRUE
     ELSE IF domain_inter # {} THEN CHOOSE l \in domain_inter : TRUE
     ELSE 0

\* the VirtualLink whose src and dest are the virtual nodes i and j, NoLink
\* for None (the scan of the matrix in update_resources, validate_link_mapping
\* and evaluate_mapping_cost)
v_link_of(virtual_network, i, j) ==
  LET n == Len(virtual_network.nodes)
      found == {<<a, b>> \in (1..n) \X (1..n) :
                  /\ virtual_network.links[a][b] # NoLink
                  /\ virtual_network.links[a][b].src = i
                  /\ virtual_network.links[a][b].dest = j}
  IN IF found = {} THEN NoLink
     ELSE LET first == CHOOSE ab \in found :
                         \A cd \in found : (ab[1] - 1) * n + ab[2] <= (cd[1] - 1) * n + cd[2]
          IN virtual_network.links[first[1]][first[2]]

\* MP_VNE.select_candidate_nodes
select_candidate_nodes(virtual_node, used_resource) ==
  LET candidate_domains ==
        IF virtual_node.candidate_domains = <<>> THEN 0..(NumPDomains - 1)
        ELSE {virtual_node.candidate_domains[d] :
                d \in 1..Len(virtual_node.candidate_domains)}
  IN {node \in PNodes :
        /\ pnodes[node].domain_id \in candidate_domains
        /\ pnodes[node].domain_id \in 0..(NumPDomains - 1)
        /\ pnodes[node].resource - used_resource[node] >= virtual_node.resource}

\* MP_VNE._validate_node_mapping
validate_final_node_mapping(virtual_network, node_mapping, used_resource) ==
  /\ \A v \in 1..Len(node_mapping) :
       pnodes[node_mapping[v]].resource - used_resource[node_mapping[v]]
         >= virtual_network.nodes[v].resource
  /\ \A v, w \in 1..Len(node_mapping) : v # w => node_mapping[v] # node_mapping[w]

\* MP_VNE.optimize_node_mapping: the mappings the search can end with. The
\* global best is one candidate for each virtual node, which one depends on
\* the draws; <<>> stands for None.
optimize_node_mapping(virtual_network, used_resource) ==
  LET n == Len(virtual_network.nodes)
      candidates_map == [v \in 1..n |->
                           select_candidate_nodes(virtual_network.nodes[v], used_resource)]
  IN IF \E v \in 1..n : candidates_map[v] = {} THEN {<<>>}
     ELSE {IF validate_final_node_mapping(virtual_network, m, used_resource)
           THEN m ELSE <<>> :
             m \in {f \in [1..n -> PNodes] : \A v \in 1..n : f[v] \in candidates_map[v]}}

\* the edges of the graph G of _find_k_shortest_paths: both directions of an
\* intra-domain link and the direction of a link of network.inter_links,
\* where the link has the bandwidth left
graph_edges(bandwidth, used_bandwidth) ==
  {<<plinks[l].src, plinks[l].dest>> :
     l \in {x \in PLinks : /\ plinks[x].kind \in {"intra", "link_ij"}
                           /\ plinks[x].bandwidth - used_bandwidth[x] >= bandwidth}}
  \cup
  {<<plinks[l].dest, plinks[l].src>> :
     l \in {x \in PLinks : /\ plinks[x].kind = "intra"
                           /\ plinks[x].bandwidth - used_bandwidth[x] >= bandwidth}}

\* the weight of a path of G: the delays of its links
path_delay(path) ==
  SumSeq([h \in 1..(Len(path) - 1) |-> plinks[find_link(path[h], path[h + 1])].delay])

\* nx.shortest_simple_paths: the simple paths of G from src to dest, by
\* increasing weight
RECURSIVE paths_by_delay(_)
paths_by_delay(paths) ==
  IF paths = {} THEN <<>>
  ELSE LET first == CHOOSE p \in paths :
                      \A q \in paths : path_delay(p) <= path_delay(q)
       IN <<first>> \o paths_by_delay(paths \ {first})

\* MP_VNE._find_k_shortest_paths
find_k_shortest_paths(src, dest, bandwidth, k, used_bandwidth) ==
  IF src = dest THEN << <<src>> >>
  ELSE LET edges == graph_edges(bandwidth, used_bandwidth)
           simple == {p \in UNION {[1..m -> PNodes] : m \in 2..Len(pnodes)} :
                        /\ p[1] = src
                        /\ p[Len(p)] = dest
                        /\ \A a, b \in 1..Len(p) : a # b => p[a] # p[b]
                        /\ \A h \in 1..(Len(p) - 1) : <<p[h], p[h + 1]>> \in edges}
           sorted == paths_by_delay(simple)
       IN SubSeq(sorted, 1, IF Len(sorted) < k THEN Len(sorted) ELSE k)

\* construct_link_mapping, lines 298-307: the least bandwidth left on the
\* links of a path, 0 when two nodes of the path have no link
min_bandwidth_of(path, used_bandwidth) ==
  LET left == {IF find_link(path[h], path[h + 1]) = 0 THEN 0
               ELSE plinks[find_link(path[h], path[h + 1])].bandwidth
                      - used_bandwidth[find_link(path[h], path[h + 1])] :
                 h \in 1..(Len(path) - 1)}
  IN CHOOSE b \in left : \A c \in left : b <= c

\* construct_link_mapping, lines 290-320: the path of the best score. The
\* score is min_bandwidth over the distance of the two end nodes, the same
\* positive distance for every path, so scores compare as min_bandwidth does;
\* best_score -1 stands for -inf and <<>> for no path.
RECURSIVE best_path_of(_, _, _, _, _, _)
best_path_of(paths, idx, bandwidth, used_bandwidth, best_path, best_score) ==
  IF idx > Len(paths) THEN best_path
  ELSE LET path == paths[idx]
       IN IF Len(path) < 2
          THEN best_path_of(paths, idx + 1, bandwidth, used_bandwidth, best_path,
                            best_score)
          ELSE LET min_bandwidth == min_bandwidth_of(path, used_bandwidth)
               IN IF min_bandwidth >= bandwidth /\ min_bandwidth > best_score
                  THEN best_path_of(paths, idx + 1, bandwidth, used_bandwidth, path,
                                    min_bandwidth)
                  ELSE best_path_of(paths, idx + 1, bandwidth, used_bandwidth,
                                    best_path, best_score)

\* list(reversed(best_path))
reversed(path) == [h \in 1..Len(path) |-> path[Len(path) + 1 - h]]

\* MP_VNE.construct_link_mapping: the double loop over the virtual nodes, p
\* counting the pairs (i, j) row by row; the dict is written as the sequence
\* of its items
RECURSIVE construct_link_mapping(_, _, _, _, _)
construct_link_mapping(virtual_network, node_mapping, used_bandwidth, p, link_mapping) ==
  LET n == Len(virtual_network.nodes)
      i == ((p - 1) \div n) + 1
      j == ((p - 1) % n) + 1
  IN IF p > n * n THEN link_mapping
     ELSE IF ~(i < j /\ virtual_network.links[i][j] # NoLink)
     THEN construct_link_mapping(virtual_network, node_mapping, used_bandwidth, p + 1,
                                 link_mapping)
     ELSE LET v_link == virtual_network.links[i][j]
              p_node_i == node_mapping[i]
              p_node_j == node_mapping[j]
          IN IF p_node_i = p_node_j
             THEN construct_link_mapping(virtual_network, node_mapping, used_bandwidth,
                    p + 1,
                    link_mapping \o << [key |-> <<i, j>>, path |-> <<p_node_i>>],
                                       [key |-> <<j, i>>, path |-> <<p_node_i>>] >>)
             ELSE LET paths == find_k_shortest_paths(p_node_i, p_node_j,
                                 v_link.bandwidth, K, used_bandwidth)
                      best_path == best_path_of(paths, 1, v_link.bandwidth,
                                                used_bandwidth, <<>>, -1)
                  IN IF best_path = <<>>
                     THEN construct_link_mapping(virtual_network, node_mapping,
                            used_bandwidth, p + 1, link_mapping)
                     ELSE construct_link_mapping(virtual_network, node_mapping,
                            used_bandwidth, p + 1,
                            link_mapping \o
                              << [key |-> <<i, j>>, path |-> best_path],
                                 [key |-> <<j, i>>, path |-> reversed(best_path)] >>)

\* the keys of a link mapping
keys_of(link_mapping) == {link_mapping[m].key : m \in 1..Len(link_mapping)}

\* evaluator.evaluate_mapping_cost
evaluate_mapping_cost(virtual_network, node_mapping, link_mapping) ==
  SumSeq([v \in 1..Len(node_mapping) |->
            virtual_network.nodes[v].resource * pnodes[node_mapping[v]].cost_per_unit])
  + SumSeq([m \in 1..Len(link_mapping) |->
      LET v_link == v_link_of(virtual_network, link_mapping[m].key[1],
                              link_mapping[m].key[2])
          path == link_mapping[m].path
      IN IF v_link = NoLink \/ Len(path) = 1 THEN 0
         ELSE SumSeq([h \in 1..(Len(path) - 1) |->
                IF find_link(path[h], path[h + 1]) = 0 THEN 0
                ELSE v_link.bandwidth
                       * plinks[find_link(path[h], path[h + 1])].cost_per_unit])])

\* the result None of embed_virtual_network
NoResult == [ok |-> FALSE, node_mapping |-> <<>>, link_mapping |-> <<>>, cost |-> 0]

\* MP_VNE.embed_virtual_network: the results a call can have
embed_virtual_network(virtual_network, used_resource, used_bandwidth) ==
  {IF node_mapping = <<>> THEN NoResult
   ELSE With(construct_link_mapping(virtual_network, node_mapping, used_bandwidth,
                                    1, <<>>),
             LAMBDA link_mapping :
               IF \E i, j \in 1..Len(virtual_network.nodes) :
                    /\ i < j
                    /\ virtual_network.links[i][j] # NoLink
                    /\ <<i, j>> \notin keys_of(link_mapping)
                    /\ <<j, i>> \notin keys_of(link_mapping)
               THEN NoResult
               ELSE [ok |-> TRUE, node_mapping |-> node_mapping,
                     link_mapping |-> link_mapping,
                     cost |-> evaluate_mapping_cost(virtual_network, node_mapping,
                                                    link_mapping)]) :
     node_mapping \in optimize_node_mapping(virtual_network, used_resource)}

\* evaluator.validate_node_mapping; a node mapping of the model maps every
\* virtual node, so the tests of lines 271 and 278 pass
validate_node_mapping(virtual_network, node_mapping, used_resource) ==
  /\ Len(node_mapping) = Len(virtual_network.nodes)
  /\ \A v \in 1..Len(virtual_network.nodes) :
       /\ pnodes[node_mapping[v]].resource - used_resource[node_mapping[v]]
            >= virtual_network.nodes[v].resource
       /\ \/ virtual_network.nodes[v].candidate_domains = <<>>
          \/ \E d \in 1..Len(virtual_network.nodes[v].candidate_domains) :
               virtual_network.nodes[v].candidate_domains[d]
                 = pnodes[node_mapping[v]].domain_id
  /\ \A v, w \in 1..Len(node_mapping) : v # w => node_mapping[v] # node_mapping[w]

\* evaluator.validate_link_mapping: every item of the link mapping is tested
\* on its own against the bandwidth the links have left
validate_link_mapping(virtual_network, node_mapping, link_mapping, used_bandwidth) ==
  LET n == Len(virtual_network.nodes)
      expected_links == Cardinality({<<i, j>> \in (1..n) \X (1..n) :
                                       virtual_network.links[i][j] # NoLink})
  IN /\ Len(link_mapping) >= expected_links
     /\ \A m \in 1..Len(link_mapping) :
          LET v_node_i == link_mapping[m].key[1]
              v_node_j == link_mapping[m].key[2]
              path == link_mapping[m].path
              p_node_i == node_mapping[v_node_i]
              p_node_j == node_mapping[v_node_j]
              v_link == v_link_of(virtual_network, v_node_i, v_node_j)
          IN IF p_node_i = p_node_j
             THEN /\ Len(path) = 1 => path[1] = p_node_i
                  /\ Len(path) >= 2 => (path[1] = p_node_i /\ path[Len(path)] = p_node_j)
             ELSE /\ Len(path) >= 2
                  /\ path[1] = p_node_i
                  /\ path[Len(path)] = p_node_j
                  /\ v_link # NoLink
                  /\ \A h \in 1..(Len(path) - 1) :
                       /\ find_link(path[h], path[h + 1]) # 0
                       /\ plinks[find_link(path[h], path[h + 1])].bandwidth
                            - used_bandwidth[find_link(path[h], path[h + 1])]
                            >= v_link.bandwidth

\* evaluator.validate_mapping
validate_mapping(virtual_network, node_mapping, link_mapping, used_resource, used_bandwidth) ==
  /\ validate_node_mapping(virtual_network, node_mapping, used_resource)
  /\ validate_link_mapping(virtual_network, node_mapping, link_mapping, used_bandwidth)

\* update_resources, lines 82-83, and unmap_virtual_network, lines 132-133:
\* used_resource of each mapped node moves by sign times the resource of
\* the virtual node
RECURSIVE move_used_resource(_, _, _, _, _)
move_used_resource(virtual_network, node_mapping, v, sign, used_resource) ==
  IF v > Len(node_mapping) THEN used_resource
  ELSE move_used_resource(virtual_network, node_mapping, v + 1, sign,
         [used_resource EXCEPT ![node_mapping[v]] =
            @ + sign * virtual_network.nodes[v].resource])

\* update_resources, lines 103-106, and unmap_virtual_network, lines
\* 153-156: used_bandwidth of the link of each hop of one path moves by sign
\* times the bandwidth of the virtual link
RECURSIVE move_path_bandwidth(_, _, _, _, _)
move_path_bandwidth(path, idx, bandwidth, sign, used_bandwidth) ==
  IF idx > Len(path) - 1 THEN used_bandwidth
  ELSE LET link == find_link(path[idx], path[idx + 1])
       IN move_path_bandwidth(path, idx + 1, bandwidth, sign,
            IF link = 0 THEN used_bandwidth
            ELSE [used_bandwidth EXCEPT ![link] = @ + sign * bandwidth])

\* update_resources, lines 86-106, and unmap_virtual_network, lines
\* 136-156: every item of the link mapping, one after the other
RECURSIVE move_used_bandwidth(_, _, _, _, _)
move_used_bandwidth(virtual_network, link_mapping, m, sign, used_bandwidth) ==
  IF m > Len(link_mapping) THEN used_bandwidth
  ELSE LET v_link == v_link_of(virtual_network, link_mapping[m].key[1],
                               link_mapping[m].key[2])
           path == link_mapping[m].path
       IN move_used_bandwidth(virtual_network, link_mapping, m + 1, sign,
            IF v_link = NoLink \/ Len(path) = 1 THEN used_bandwidth
            ELSE move_path_bandwidth(path, 1, v_link.bandwidth, sign, used_bandwidth))

\* BaseVNEAlgorithm.update_resources on the state st of the simulation
update_resources(virtual_network, mapping_result, mapping_id, st) ==
  [st EXCEPT
     !.used_resource = move_used_resource(virtual_network,
                         mapping_result.node_mapping, 1, 1, @),
     !.used_bandwidth = move_used_bandwidth(virtual_network,
                          mapping_result.link_mapping, 1, 1, @),
     !.active_mappings = @ \cup {[mapping_id |-> mapping_id,
                                  virtual_network |-> virtual_network,
                                  mapping_result |-> mapping_result]}]

\* BaseVNEAlgorithm.unmap_virtual_network on the state st of the simulation
unmap_virtual_network(mapping_id, st) ==
  LET found == {a \in st.active_mappings : a.mapping_id = mapping_id}
  IN IF found = {} THEN st
     ELSE LET mapping_info == CHOOSE a \in found : TRUE
          IN [st EXCEPT
                !.used_resource = move_used_resource(mapping_info.virtual_network,
                                    mapping_info.mapping_result.node_mapping, 1, -1, @),
                !.used_bandwidth = move_used_bandwidth(mapping_info.virtual_network,
                                     mapping_info.mapping_result.link_mapping, 1, -1, @),
                !.active_mappings = @ \ {mapping_info}]

\* sorted(requests, key = arrival_time), line 71: a stable sort
RECURSIVE sorted_requests(_)
sorted_requests(reqs) ==
  IF reqs = <<>> THEN <<>>
  ELSE LET rest == sorted_requests(SubSeq(reqs, 1, Len(reqs) - 1))
           x == reqs[Len(reqs)]
       IN SelectSeq(rest, LAMBDA y : y.arrival_time <= x.arrival_time)
          \o <<x>>
          \o SelectSeq(rest, LAMBDA y : y.arrival_time > x.arrival_time)

\* events.sort(key = time), line 81: a stable sort
RECURSIVE sorted_events(_)
sorted_events(events) ==
  IF events = <<>> THEN <<>>
  ELSE LET rest == sorted_events(SubSeq(events, 1, Len(events) - 1))
           x == events[Len(events)]
       IN SelectSeq(rest, LAMBDA y : y.time <= x.time)
          \o <<x>>
          \o SelectSeq(rest, LAMBDA y : y.time > x.time)

\* lines 76-81: an arrival and a departure for each request, by time
RECURSIVE events_of(_)
events_of(reqs) ==
  IF reqs = <<>> THEN <<>>
  ELSE << [time |-> Head(reqs).arrival_time, type |-> "arrival", request |-> Head(reqs)],
          [time |-> end_time(Head(reqs)), type |-> "departure", request |-> Head(reqs)] >>
       \o events_of(Tail(reqs))

\* the lists of requests a simulation is run on: requests of vne_requests in
\* any order, each at most once
test_cases ==
  {[i \in 1..Len(d) |-> vne_requests[d[i]]] :
     d \in {e \in UNION {[1..n -> 1..Len(vne_requests)] : n \in 1..MaxSimRequests} :
              \A i, j \in 1..Len(e) : i # j => e[i] # e[j]}}

\* VNESimulation.run up to its loop over the events, on a physical network
\* nothing is mapped on
SimStart(reqs) ==
  [pc |-> "events",
   events |-> sorted_events(events_of(sorted_requests(reqs))),
   processed_requests |-> {},
   request_mappings |-> {},
   used_resource |-> [n \in PNodes |-> 0],
   used_bandwidth |-> [l \in PLinks |-> 0],
   active_mappings |-> {},
   mapping_id_counter |-> 0,
   accepted_requests |-> 0,
   rejected_requests |-> 0,
   total_cost |-> 0,
   last |-> [type |-> "start"]]

InitSim ==
  /\ mc = McStart
  /\ driver = DriverIdle
  /\ sim \in {SimStart(reqs) : reqs \in test_cases}
  /\ available_cpu = [n \in Nodes |-> snodes[n].cpu_capacity]
  /\ available_bw = [l \in Links |-> slinks[l].bandwidth]
  /\ active_mappings = <<>>
  /\ calls = 0
  /\ pso = PsoIdle
  /\ last = [op |-> "init", outcome |-> "none", now |-> 0, req |-> 0, mapping |-> <<>>,
             fail_vlink |-> 0, recorded |-> 0, particle |-> <<>>, cost |-> 0,
             pre_cpu |-> [n \in Nodes |-> snodes[n].cpu_capacity],
             pre_bw |-> [l \in Links |-> slinks[l].bandwidth],
             pre_active |-> <<>>]

\* lines 95-165: an arrival event
SimArrival ==
  /\ sim.pc = "events"
  /\ sim.events # <<>>
  /\ Head(sim.events).type = "arrival"
  /\ LET request == Head(sim.events).request
         rest == [sim EXCEPT !.events = Tail(@)]
     IN IF request.request_id \in sim.processed_requests
        THEN sim' = [rest EXCEPT !.last = [type |-> "arrival", outcome |-> "skipped",
                                           request_id |-> request.request_id]]
        ELSE \E mapping_result \in embed_virtual_network(request.virtual_network,
                                     sim.used_resource, sim.used_bandwidth) :
               LET seen == [rest EXCEPT !.processed_requests =
                                          @ \cup {request.request_id}]
               IN IF ~mapping_result.ok
                  THEN sim' = [seen EXCEPT
                         !.request_mappings = @ \cup
                            {[request_id |-> request.request_id, accepted |-> FALSE,
                              mapping_id |-> -1]},
                         !.rejected_requests = @ + 1,
                         !.last = [type |-> "arrival", outcome |-> "embedding failed",
                                   request_id |-> request.request_id]]
                  ELSE IF validate_mapping(request.virtual_network,
                            mapping_result.node_mapping, mapping_result.link_mapping,
                            sim.used_resource, sim.used_bandwidth)
                  THEN sim' = [update_resources(request.virtual_network, mapping_result,
                                                sim.mapping_id_counter, seen)
                               EXCEPT
                         !.mapping_id_counter = @ + 1,
                         !.request_mappings = @ \cup
                            {[request_id |-> request.request_id, accepted |-> TRUE,
                              mapping_id |-> sim.mapping_id_counter]},
                         !.accepted_requests = @ + 1,
                         !.total_cost = @ + mapping_result.cost,
                         !.last = [type |-> "arrival", outcome |-> "accepted",
                                   request_id |-> request.request_id,
                                   mapping_result |-> mapping_result]]
                  ELSE sim' = [seen EXCEPT
                         !.request_mappings = @ \cup
                            {[request_id |-> request.request_id, accepted |-> FALSE,
                              mapping_id |-> -1]},
                         !.rejected_requests = @ + 1,
                         !.last = [type |-> "arrival", outcome |-> "validation failed",
                                   request_id |-> request.request_id]]
  /\ UNCHANGED <<available_cpu, available_bw, active_mappings, calls, last, pso, mc,
                 driver>>

\* lines 167-176: a departure event
SimDeparture ==
  /\ sim.pc = "events"
  /\ sim.events # <<>>
  /\ Head(sim.events).type = "departure"
  /\ LET request == Head(sim.events).request
         rest == [sim EXCEPT !.events = Tail(@),
                             !.last = [type |-> "departure",
                                       request_id |-> request.request_id]]
         mapping_info == {i \in sim.request_mappings :
                            i.request_id = request.request_id /\ i.accepted}
     IN IF mapping_info = {}
        THEN sim' = rest
        ELSE sim' = unmap_virtual_network((CHOOSE i \in mapping_info : TRUE).mapping_id,
                                          rest)
  /\ UNCHANGED <<available_cpu, available_bw, active_mappings, calls, last, pso, mc,
                 driver>>

\* lines 178-188: the events are through
SimEnd ==
  /\ sim.pc = "events"
  /\ sim.events = <<>>
  /\ sim' = [sim EXCEPT !.pc = "done", !.last = [type |-> "end"]]
  /\ UNCHANGED <<available_cpu, available_bw, active_mappings, calls, last, pso, mc,
                 driver>>

NextSim ==
  \/ SimArrival
  \/ SimDeparture
  \/ SimEnd

SpecSim == InitSim /\ [][NextSim]_vars

\* ------------------------------------------------------------- properties
\* the CPU the mapping of one entry demands of the node n
CpuDemandOn(info, n) ==
  SumSeq([i \in 1..Len(info.mapping) |->
            IF info.mapping[i].snode = n THEN info.mapping[i].vnode.cpu_demand ELSE 0])

\* the bandwidth the stored paths of one entry demand of the link l: the
\* demand of each virtual link once per occurrence of l in its path
BwDemandOn(info, l) ==
  SumSeq([k \in 1..Len(info.vlink_paths) |->
            info.vlink_paths[k].vlink.bandwidth
            * Cardinality({h \in 1..Len(info.vlink_paths[k].path) :
                             info.vlink_paths[k].path[h] = l})])

UsedCpu(entries, n) == SumSeq([e \in 1..Len(entries) |-> CpuDemandOn(entries[e], n)])
UsedBw(entries, l) == SumSeq([e \in 1..Len(entries) |-> BwDemandOn(entries[e], l)])

LedgerIsPreCall == available_cpu = last.pre_cpu /\ available_bw = last.pre_bw

FailedInCommit == last.op = "handle" /\ last.outcome \notin {"Accepted", "NoCandidate"}

\* C1: when commit_mapping raises (CPU deficit, no path for a virtual link,
\* bandwidth deficit on a hop, or an exception of the router), every
\* available_cpu and every available_bw has the value it had before the call.
C1_RollbackExact == FailedInCommit => LedgerIsPreCall

\* a commit that failed on its third virtual link, after the CPU of both
\* virtual nodes and the bandwidth of the earlier links had been deducted
C1_Witness ==
  /\ FailedInCommit
  /\ last.outcome = "NoPath"
  /\ last.fail_vlink = 3
  /\ last.recorded >= 4

\* C2: once every accepted mapping has been released, in whatever order the
\* releases and other commits came, every available_cpu and available_bw is
\* back at its value before the first request.
C2_ReleaseRoundTrip ==
  active_mappings = <<>> =>
    /\ available_cpu = [n \in Nodes |-> snodes[n].cpu_capacity]
    /\ available_bw = [l \in Links |-> slinks[l].bandwidth]

\* two mappings with stored paths were accepted and the last of them has
\* just been released
C2_Witness ==
  /\ last.op = "release"
  /\ active_mappings = <<>>
  /\ calls >= 2
  /\ \E e \in Range(last.pre_active) :
       /\ e.rid >= 2
       /\ \E k \in 1..Len(e.vlink_paths) : Len(e.vlink_paths[k].path) >= 2

\* C3: 0 <= available_cpu <= cpu_capacity for every node and
\* 0 <= available_bw <= bandwidth for every link, in every reachable state.
C3_WithinCapacity ==
  /\ \A n \in Nodes : 0 <= available_cpu[n] /\ available_cpu[n] <= snodes[n].cpu_capacity
  /\ \A l \in Links : 0 <= available_bw[l] /\ available_bw[l] <= slinks[l].bandwidth

\* a node and an inter-domain link are used up completely
C3_Witness ==
  /\ \E n \in Nodes : available_cpu[n] = 0
  /\ \E l \in Range(snetwork.links) : available_bw[l] = 0
  /\ Len(active_mappings) >= 2

\* C4: for every node and link, capacity - available is the sum of the
\* demands of the active mappings that use it.
C4_Conservation ==
  /\ \A n \in Nodes :
       snodes[n].cpu_capacity - available_cpu[n] = UsedCpu(active_mappings, n)
  /\ \A l \in Links :
       slinks[l].bandwidth - available_bw[l] = UsedBw(active_mappings, l)

\* two active mappings hold bandwidth of the same link
C4_Witness ==
  /\ Len(active_mappings) >= 2
  /\ \E l \in Links : \A e \in Range(active_mappings) : BwDemandOn(e, l) > 0

\* C5: a handle_mapping_request call that fails - no candidate for a
\* virtual node, or a failed commit - leaves the ledger as it was before
\* the call and adds no entry to the active-mapping table.
C5_FailureLeavesState ==
  (last.op = "handle" /\ last.outcome # "Accepted") =>
    (LedgerIsPreCall /\ active_mappings = last.pre_active)

\* a request without a candidate, refused while another mapping is active
C5_Witness ==
  /\ last.op = "handle"
  /\ last.outcome = "NoCandidate"
  /\ Len(active_mappings) >= 1

\* the stored path leads hop by hop from the node src to the node dst
RECURSIVE Connects(_, _, _)
Connects(path, src, dst) ==
  IF path = <<>> THEN src = dst
  ELSE /\ src \in {slinks[Head(path)].src, slinks[Head(path)].dst}
       /\ Connects(Tail(path), OtherEnd(Head(path), src), dst)

\* replaying the deductions of the stored paths on the bandwidths bw finds
\* bandwidth >= the demand on every hop
RECURSIVE HopsHadBandwidth(_, _, _)
HopsHadBandwidth(vlink_paths, k, bw) ==
  IF k > Len(vlink_paths) THEN TRUE
  ELSE LET hops == commit_hops(vlink_paths[k].path, 1, vlink_paths[k].vlink.bandwidth,
                               bw, ZeroBw)
       IN hops.err = "none" /\ HopsHadBandwidth(vlink_paths, k + 1, hops.bw)

SnodeOf(info, v) == info.mapping[v].snode

\* C6: the stored path of every committed virtual link is a connected hop
\* sequence between the substrate nodes of the link's two endpoints, and
\* every hop had available_bw >= the demand when it was committed.
C6_PathValidity ==
  /\ \A e \in Range(active_mappings) : \A k \in 1..Len(e.vlink_paths) :
       Connects(e.vlink_paths[k].path,
                SnodeOf(e, e.vlink_paths[k].vlink.src),
                SnodeOf(e, e.vlink_paths[k].vlink.dst))
  /\ (last.op = "handle" /\ last.outcome = "Accepted") =>
       HopsHadBandwidth(active_mappings[Len(active_mappings)].vlink_paths, 1, last.pre_bw)

\* the nodes that process_request is to list for the virtual node vnode
Permitted(vnode, cpu) ==
  {n \in Nodes :
     /\ cpu[n] >= vnode.cpu_demand
     /\ (vnode.domains = {}
         \/ snetwork.domains[get_domain_index(n)].domain_id \in vnode.domains)}

\* C7: the candidate lists of a request hold exactly the nodes of a
\* permitted domain with available_cpu >= cpu_demand, and in an accepted
\* request every virtual node with a non-empty permitted-domain set is
\* mapped to a node of one of these domains.
C7_DomainsRespected ==
  /\ last.op = "handle" =>
       \A j \in 1..Len(requests[last.req].vnetwork.nodes) :
         Range(process_request(requests[last.req].vnetwork, last.pre_cpu)[j])
           = Permitted(requests[last.req].vnetwork.nodes[j], last.pre_cpu)
  /\ \A e \in Range(active_mappings) : \A i \in 1..Len(e.mapping) :
       e.mapping[i].vnode.domains # {} =>
         snetwork.domains[get_domain_index(e.mapping[i].snode)].domain_id
           \in e.mapping[i].vnode.domains

Expired(entries, now) == SelectSeq(entries, LAMBDA e : e.expire_time <= now)
Unexpired(entries, now) == SelectSeq(entries, LAMBDA e : e.expire_time > now)

\* C8: when release_expired_requests(now) returns, the table holds the
\* mappings with expire_time > now that it held before, in their order, and
\* no other; their resources are still deducted.
C8_ReleasesExactlyExpired ==
  last.op = "release" =>
    /\ active_mappings = Unexpired(last.pre_active, last.now)
    /\ \A n \in Nodes :
         snodes[n].cpu_capacity - available_cpu[n] >= UsedCpu(active_mappings, n)
    /\ \A l \in Links :
         slinks[l].bandwidth - available_bw[l] >= UsedBw(active_mappings, l)

\* one mapping was released and a later one stays active
C8_Witness ==
  /\ last.op = "release"
  /\ Len(last.pre_active) = 2
  /\ Len(active_mappings) = 1
  /\ active_mappings[1].expire_time > last.now
  /\ \E l \in Links : BwDemandOn(active_mappings[1], l) > 0

\* C9: a release restores the bandwidth of exactly the hops of the stored
\* paths and the CPU of exactly the nodes of the stored mappings of the
\* released entries, and changes no other residual.
C9_ReleaseBySnapshot ==
  last.op = "release" =>
    /\ \A n \in Nodes :
         available_cpu[n] = last.pre_cpu[n] + UsedCpu(Expired(last.pre_active, last.now), n)
    /\ \A l \in Links :
         available_bw[l] = last.pre_bw[l] + UsedBw(Expired(last.pre_active, last.now), l)

\* a mapping was released whose stored path is not the path the router
\* returns on the bandwidths of the time of the release, while another
\* mapping stays active
C9_Witness ==
  /\ last.op = "release"
  /\ active_mappings # <<>>
  /\ \E e \in Range(Expired(last.pre_active, last.now)) :
       \E k \in 1..Len(e.vlink_paths) :
         e.vlink_paths[k].path
           # shortest_path(SnodeOf(e, e.vlink_paths[k].vlink.src),
                           SnodeOf(e, e.vlink_paths[k].vlink.dst),
                           e.vlink_paths[k].vlink.bandwidth, last.pre_bw).path

\* C10: a virtual link whose two endpoints are mapped to the same substrate
\* node does not make the commit fail: the commit never reports "no path"
\* for such a link, and an accepted request stores a path for every one of
\* its virtual links, the empty path for a link with both endpoints on one
\* node.
C10_SameNodeEmptyPath ==
  /\ (last.op = "handle" /\ last.outcome = "NoPath") =>
       last.mapping[requests[last.req].vnetwork.links[last.fail_vlink].src].snode
         # last.mapping[requests[last.req].vnetwork.links[last.fail_vlink].dst].snode
  /\ \A e \in Range(active_mappings) :
       /\ Len(e.vlink_paths) = Len(e.vlinks)
       /\ \A k \in 1..Len(e.vlink_paths) :
            SnodeOf(e, e.vlink_paths[k].vlink.src) = SnodeOf(e, e.vlink_paths[k].vlink.dst)
              => e.vlink_paths[k].path = <<>>

\* --------------------------------------------- the router calls of a commit
\* the number of virtual links the commit of the last call has routed: all of
\* them when it was accepted, those up to the failing one when it failed in
\* the bandwidth phase, none when it failed before
RoutedCount ==
  IF last.op # "handle" THEN 0
  ELSE IF last.outcome = "Accepted" THEN Len(requests[last.req].vnetwork.links)
  ELSE last.fail_vlink

\* the call shortest_path(src, dst, bw_required) the commit of the last call
\* made for its k-th virtual link, with the residual bandwidths bw it was
\* made on (those left by the links before it) and its result res
Routed(k) ==
  LET vlinks == requests[last.req].vnetwork.links
      snode_of == [i \in 1..Len(last.mapping) |-> last.mapping[i].snode]
      before == commit_bw(snode_of, SubSeq(vlinks, 1, k - 1), 1, last.pre_bw, ZeroBw, <<>>)
  IN [src |-> snode_of[vlinks[k].src], dst |-> snode_of[vlinks[k].dst],
      bw_required |-> vlinks[k].bandwidth, bw |-> before.bw,
      res |-> shortest_path(snode_of[vlinks[k].src], snode_of[vlinks[k].dst],
                            vlinks[k].bandwidth, before.bw)]

\* the links of the substrate: the intra-domain links of the domains and the
\* inter-domain links of the network
RealLinks ==
  UNION {Range(snetwork.domains[d].links) : d \in 1..Len(snetwork.domains)}
    \cup Range(snetwork.links)

\* C11: every hop of a path the global router returns, and of every stored
\* path, is a link of the substrate, and the router returns such a path also
\* where the composite graph has a synthetic edge between two boundary nodes
\* of one domain: the edge is expanded into the intra-domain links it stands
\* for, the router does not fail on it.
C11_SyntheticEdgesExpanded ==
  /\ \A e \in Range(active_mappings) : \A k \in 1..Len(e.vlink_paths) :
       Range(e.vlink_paths[k].path) \subseteq RealLinks
  /\ \A k \in 1..RoutedCount :
       /\ Range(Routed(k).res.path) \subseteq RealLinks
       /\ synthetic_edge_needed(Routed(k).bw_required, Routed(k).bw)
            => Routed(k).res.err # "TypeError"

\* the composite paths intra(src -> b_src) + inter_route(b_src -> b_dst)
\* + intra(b_dst -> dst) of the pairs (b_src, b_dst) of boundary nodes that
\* admit one on the bandwidths bw: the source reaches b_src (or is b_src),
\* the inter-domain router finds a route, and b_dst reaches dst (or is dst)
PairPaths(src, dst, bw_required, bw) ==
  LET ds == snetwork.domains[get_domain_index(src)]
      dd == snetwork.domains[get_domain_index(dst)]
  IN {lc_shortest_path(ds, src, b[1], bw_required, bw)
        \o interdomain_shortest_path(b[1], b[2], bw_required, bw).path
        \o lc_shortest_path(dd, b[2], dst, bw_required, bw) :
      b \in {c \in Range(ds.boundary_nodes) \X Range(dd.boundary_nodes) :
               /\ c[1] = src \/ lc_shortest_path(ds, src, c[1], bw_required, bw) # <<>>
               /\ interdomain_shortest_path(c[1], c[2], bw_required, bw).err = "none"
               /\ interdomain_shortest_path(c[1], c[2], bw_required, bw).path # <<>>
               /\ c[2] = dst \/ lc_shortest_path(dd, c[2], dst, bw_required, bw) # <<>>}}

CrossDomain(src, dst) == get_domain_index(src) # get_domain_index(dst)

\* C12: for src and dst in different domains the global router returns a
\* path whenever a pair of boundary nodes admits a composite path under the
\* bandwidth floor, and the path it returns is one of these composite paths,
\* of the least total weight (delay + cost_per_unit * bw_required per hop).
C12_MinOverBoundaryPairs ==
  \A k \in 1..RoutedCount :
    LET r == Routed(k)
        paths == PairPaths(r.src, r.dst, r.bw_required, r.bw)
    IN (CrossDomain(r.src, r.dst) /\ paths # {}) =>
         /\ r.res.err = "none"
         /\ r.res.path \in paths
         /\ \A p \in paths :
              path_cost(r.res.path, r.bw_required) <= path_cost(p, r.bw_required)

\* the nodes reached from the nodes of seen over links (intra- or
\* inter-domain) with available bandwidth >= bw_required
RECURSIVE ReachedFrom(_, _, _)
ReachedFrom(seen, bw_required, bw) ==
  LET more == {OtherEnd(l, n) : <<l, n>> \in
                 {x \in RealLinks \X seen :
                    /\ bw[x[1]] >= bw_required
                    /\ x[2] \in {slinks[x[1]].src, slinks[x[1]].dst}}}
  IN IF more \subseteq seen THEN seen
     ELSE ReachedFrom(seen \cup more, bw_required, bw)

Reachable(src, dst, bw_required, bw) == dst \in ReachedFrom({src}, bw_required, bw)

\* C13: when dst cannot be reached from src over links with available
\* bandwidth >= the floor - as when src has no qualifying intra-domain path
\* to the boundary node, or the boundary node none to dst - the global
\* router returns no hop sequence: it answers "no path".
C13_UnreachableIsNoPath ==
  \A k \in 1..RoutedCount :
    LET r == Routed(k)
    IN ~Reachable(r.src, r.dst, r.bw_required, r.bw) =>
         ~(r.res.err = "none" /\ r.res.path # <<>>)

\* the substrate node a virtual node is mapped to by the last call
LastSnode(v) == last.mapping[v].snode

\* sum over the virtual nodes of cpu_demand * cost_per_unit of the chosen node
NodeCost(mapping) ==
  SumSeq([i \in 1..Len(mapping) |->
            mapping[i].vnode.cpu_demand * snodes[mapping[i].snode].cost_per_unit])

\* the cost of the global router's shortest path under the virtual link's
\* bandwidth between the nodes chosen for its endpoints, on the bandwidths
\* bw; -1 (for +infinity) when the router has no path
LinkCost(mapping, vlink, bw) ==
  LET r == shortest_path(mapping[vlink.src].snode, mapping[vlink.dst].snode,
                         vlink.bandwidth, bw)
  IN IF mapping[vlink.src].snode = mapping[vlink.dst].snode THEN 0
     ELSE IF r.err # "none" \/ r.path = <<>> THEN -1
     ELSE path_cost(r.path, vlink.bandwidth)

\* node cost + link cost of a mapping, -1 when a link cost is
FitnessOf(mapping, vlinks, bw) ==
  IF \E k \in 1..Len(vlinks) : LinkCost(mapping, vlinks[k], bw) = -1 THEN -1
  ELSE NodeCost(mapping)
       + SumSeq([k \in 1..Len(vlinks) |-> LinkCost(mapping, vlinks[k], bw)])

\* C14: the fitness of the particle pso returns is the node cost of its
\* mapping plus, for every virtual link of the request, the cost of the
\* router's shortest path between the chosen nodes (on the ledger the search
\* ran on), and an accepted call returns this value as its cost.
C14_FitnessIsNodePlusLinkCost ==
  (last.op = "handle" /\ last.particle # <<>>) =>
    LET request == requests[last.req]
        value == FitnessOf(last.mapping, request.vnetwork.links, last.pre_bw)
    IN /\ fitness(last.particle, process_request(request.vnetwork, last.pre_cpu),
                  request) = value
       /\ last.outcome = "Accepted" => last.cost = value

\* some virtual link of the request joins two chosen nodes with no path
\* between them over links with available bandwidth >= its demand
Infeasible(mapping, vlinks, bw) ==
  \E k \in 1..Len(vlinks) :
    ~Reachable(mapping[vlinks[k].src].snode, mapping[vlinks[k].dst].snode,
               vlinks[k].bandwidth, bw)

\* C15: when a virtual link has no feasible path for the particle pso
\* returns, on the ledger of the call, the fitness of the particle is
\* +infinity (-1) and the call fails before the commit is attempted: nothing
\* is deducted, nothing is stored.
C15_InfeasibleFailsBeforeCommit ==
  (/\ last.op = "handle"
   /\ last.particle # <<>>
   /\ Infeasible(last.mapping, requests[last.req].vnetwork.links, last.pre_bw)) =>
    /\ fitness(last.particle,
               process_request(requests[last.req].vnetwork, last.pre_cpu),
               requests[last.req]) = -1
    /\ last.outcome # "Accepted"
    /\ last.recorded = 0
    /\ LedgerIsPreCall
    /\ active_mappings = last.pre_active

\* the last call is request 2 (three virtual links of bandwidth 2 between
\* its two virtual nodes) with the nodes on the substrate nodes 1 and 2,
\* which the parallel links 1 and 2 join, each with bandwidth for one of
\* the virtual links and not for two
ParallelLinksCase ==
  /\ last.op = "handle" /\ last.req = 2 /\ last.particle # <<>>
  /\ {LastSnode(1), LastSnode(2)} = {1, 2}
  /\ last.outcome # "InsufficientCpu"
  /\ \A l \in {1, 2} : last.pre_bw[l] \in 2..3

\* C16: within one commit the router sees the deductions of the request's
\* earlier virtual links: an accepted request books on no link more than was
\* available before its commit, no hop of a returned path lacks bandwidth
\* when it is deducted, and with two parallel links that carry one virtual
\* link each the first two virtual links go over different links, the third
\* finds no path and the commit is rolled back.
C16_CommitSeesOwnDeductions ==
  /\ (last.op = "handle" /\ last.outcome = "Accepted") =>
       \A l \in Links :
         BwDemandOn(active_mappings[Len(active_mappings)], l) <= last.pre_bw[l]
  /\ last.op = "handle" => last.outcome # "InsufficientBandwidth"
  /\ ParallelLinksCase =>
       /\ last.outcome = "NoPath" /\ last.fail_vlink = 3
       /\ {Routed(1).res.path, Routed(2).res.path} = {<<1>>, <<2>>}
       /\ LedgerIsPreCall

\* the three virtual links of request 2 were routed between the nodes 1 and
\* 2 on the full parallel links
C16_Witness ==
  /\ ParallelLinksCase
  /\ last.pre_bw[1] = 3 /\ last.pre_bw[2] = 3
  /\ last.fail_vlink = 3

\* the entries of the table before that have no entry of the same
\* identifier in the table after
Gone(before, after) ==
  SelectSeq(before, LAMBDA e : \A i \in 1..Len(after) : after[i].rid # e.rid)

\* one step of the engine keeps the lifecycle of the mappings: a call of
\* handle_mapping_request removes no entry and adds one, under an identifier
\* no entry has or had, exactly when its commit succeeded; a call of
\* release_expired_requests adds none, and restores the CPU and bandwidth of
\* exactly the entries it removes
LifecycleStep(before, after, cpu, cpu_after, bw, bw_after, step, n_calls) ==
  /\ \A i, j \in 1..Len(after) : after[i].rid = after[j].rid => i = j
  /\ step.op = "handle" =>
       /\ Gone(before, after) = <<>>
       /\ Gone(after, before)
            = IF step.outcome = "Accepted" THEN <<after[Len(after)]>> ELSE <<>>
       /\ \A e \in Range(Gone(after, before)) :
            e.rid = n_calls /\ \A f \in Range(before) : f.rid < e.rid
  /\ step.op = "release" =>
       /\ Gone(after, before) = <<>>
       /\ \A n \in Nodes : cpu_after[n] = cpu[n] + UsedCpu(Gone(before, after), n)
       /\ \A l \in Links : bw_after[l] = bw[l] + UsedBw(Gone(before, after), l)

\* C17: every entry of the mapping table is created by a call whose commit
\* succeeded, under an identifier not in use; a rejected request gets no
\* entry; the release call that restores the resources of an entry removes
\* it, and a release call restores nothing but the entries it removes, so
\* that no mapping is released twice.
C17_ReleasedExactlyOnce ==
  [][LifecycleStep(active_mappings, active_mappings', available_cpu, available_cpu',
                   available_bw, available_bw', last', calls')]_vars

\* the first mapping has been released while the second, accepted before
\* that release, stays in the table
C17_Witness ==
  /\ last.op = "release"
  /\ \E e \in Range(last.pre_active) : e.rid = 1
  /\ active_mappings # <<>>
  /\ \A f \in Range(active_mappings) : f.rid = 2

\* the elements of a finite set of numbers, in ascending order
RECURSIVE SetToSeq(_)
SetToSeq(set) ==
  IF set = {} THEN <<>>
  ELSE LET m == CHOOSE x \in set : \A y \in set : x <= y
       IN <<m>> \o SetToSeq(set \ {m})

\* C18: candidate selection and the fitness evaluations of a search change
\* no available_cpu and no available_bw: every step of a search, from the
\* candidate lists to the returned vector, leaves the ledger as it is.
C18_SearchLeavesLedger ==
  [][available_cpu' = available_cpu /\ available_bw' = available_bw]_vars

\* a search has returned after evaluating positions of three different
\* scores, on a ledger that holds the deductions of an active mapping
C18_Witness ==
  /\ pso.pc = "done"
  /\ Cardinality(pso.seen) >= 3
  /\ \E n \in Nodes : available_cpu[n] < snodes[n].cpu_capacity

\* C19: the global best score after an iteration is <= the score after the
\* iteration before (and after the initialisation), whatever was drawn.
C19_GbestNonIncreasing ==
  \A k \in 1..(Len(pso.after) - 1) : pso.after[k + 1] <= pso.after[k]

\* the global best score fell in the first and again in the second iteration
C19_Witness ==
  /\ Len(pso.after) >= 3
  /\ pso.after[2] < pso.after[1]
  /\ pso.after[3] < pso.after[2]

\* C20: the vector pso returns has the lowest score of all the positions
\* the run has evaluated - the initial population and the position of every
\* particle in every iteration.
C20_ReturnsLowestObserved ==
  pso.pc = "done" =>
    /\ pso.gbest_score = MinOf(SetToSeq(pso.seen))
    /\ fitness(pso.gbest, pso.candidates, requests[pso.req]) = pso.gbest_score

\* a run has returned a vector better than every particle of the initial
\* population, found by the particle that is not first in the list
C20_Witness ==
  /\ pso.pc = "done"
  /\ pso.gbest_score < pso.after[1]
  /\ pso.gbest = pso.pbest[2]
  /\ pso.pbest_score[1] > pso.gbest_score

\* ------------------------------------------------- the routers as functions
\* the substrate nodes a path visits from the node src on
RECURSIVE NodesAlong(_, _)
NodesAlong(path, src) ==
  IF path = <<>> THEN <<src>>
  ELSE <<src>> \o NodesAlong(Tail(path), OtherEnd(Head(path), src))

\* the simple paths from src to dst over the links of the domain d that
\* have the bandwidth bw_required left, a link taken in either direction
SimplePaths(d, src, dst, bw_required, bw) ==
  {p \in UNION {[1..n -> Range(d.links)] : n \in 1..(Len(d.nodes) - 1)} :
     /\ \A i \in 1..Len(p) : bw[p[i]] >= bw_required
     /\ Connects(p, src, dst)
     /\ Cardinality(Range(NodesAlong(p, src))) = Len(p) + 1}

\* the weight of a path for the local router
RECURSIVE LocalWeight(_)
LocalWeight(path) ==
  IF path = <<>> THEN 0
  ELSE slinks[Head(path)].delay + slinks[Head(path)].cost_per_unit
       + LocalWeight(Tail(path))

HandleOutcomes(r, cpu, bw) ==
  LET vnetwork == requests[r].vnetwork
      candidates == process_request(vnetwork, cpu)
  IN IF \E j \in 1..Len(candidates) : candidates[j] = <<>>
     THEN {[err |-> "NoCandidate"]}
     ELSE {With(best_mapping(vnetwork, candidates, particle), LAMBDA mapping :
             With(commit_mapping(mapping, vnetwork.links, cpu, bw), LAMBDA res :
               IF res.err = "none"
               THEN [err |-> "none", mapping |-> mapping,
                     vlink_paths |-> res.vlink_paths,
                     cost |-> fitness(particle, candidates, requests[r])]
               ELSE [err |-> res.err])) :
           particle \in pso_results(candidates)}

C23_SyntheticEdgeWeight ==
  last.op = "inter" =>
    /\ last.res.err # "TypeError"
    /\ \A e \in synthetic_edges(last.bw_required, available_bw) :
         edge_weight(e, last.bw_required) = path_cost(e.path, last.bw_required)
    /\ \A h \in 1..Len(last.res.path) :
         available_bw[last.res.path[h]] >= last.bw_required

\* ------------------------------------------------------------------ expiry
\* the entry the last call has added to the active-mapping table
LastEntry == active_mappings[Len(active_mappings)]

InCandidates(position) ==
  /\ Len(position) = Len(pso.candidates)
  /\ \A j \in 1..Len(position) : position[j] \in 1..Len(pso.candidates[j])

\* C26: at every point of a search every particle position, every particle
\* best and the global best is a vector of indexes into the candidate lists
\* (entry j in 0..len(candidates[j]) - 1, written 1..len here), also after
\* a rounded sum that is negative or past the end of the list and after a
\* mutation; the search does not end with an index error and the vector it
\* returns can be materialised.
C26_PositionsInRange ==
  /\ pso.pc # "IndexError"
  /\ pso.pc \in {"run", "done"} =>
       /\ \A i \in 1..NumParticles :
            InCandidates(pso.population[i]) /\ InCandidates(pso.pbest[i])
       /\ InCandidates(pso.gbest)

\* a finished search in which a particle has left its best position and the
\* global best is not the initial one
C26_Witness ==
  /\ pso.pc = "done"
  /\ \E i \in 1..NumParticles : pso.population[i] # pso.pbest[i]
  /\ pso.after[1] # pso.gbest_score

\* ------------------------------------------------- the baseline MC_VNM
\* the CPU a node mapping of the baseline demands of the node n
McCpuDemandOn(node_mapping, n) ==
  SumSeq([i \in 1..Len(node_mapping) |->
            IF node_mapping[i].snode = n THEN node_mapping[i].vnode.cpu_demand ELSE 0])

\* the bandwidth a link mapping of the baseline demands of the link l: the
\* bandwidth of each virtual link, once for each time its path takes l
McBwDemandOn(link_mapping, l) ==
  SumSeq([k \in 1..Len(link_mapping) |->
            link_mapping[k].vlink.bandwidth
              * Cardinality({h \in 1..Len(link_mapping[k].path) :
                               link_mapping[k].path[h] = l})])

\* C25: release_expired_requests of the baseline gives back on the
\* substrate of the engine what the expired mappings reserved: available_cpu
\* of each mapped node grows by the demand of the virtual node, available_bw
\* of each hop by the bandwidth of the virtual link.
C25_BaselineReleaseRestores ==
  mc.last.op = "release" =>
    /\ \A n \in Nodes :
         mc.cpu[n] = mc.last.pre_cpu[n]
           + SumSeq([e \in 1..Len(mc.last.released) |->
                       McCpuDemandOn(mc.last.released[e].node_mapping, n)])
    /\ \A l \in Links :
         mc.bw[l] = mc.last.pre_bw[l]
           + SumSeq([e \in 1..Len(mc.last.released) |->
                       McBwDemandOn(mc.last.released[e].link_mapping, l)])

\* C28: an accepted request of the baseline lowers available_bw of every
\* link by the bandwidth of each virtual link once for each time its path
\* takes the link - the tentative deductions of link_mapping and the
\* deductions of reserve_resources are one reservation - and a request
\* whose link mapping fails leaves every available_bw as it was.
C28_BaselineReservesOnce ==
  /\ (mc.last.op = "handle" /\ mc.last.outcome = "Accepted") =>
       \A l \in Links :
         mc.last.pre_bw[l] - mc.bw[l] = McBwDemandOn(mc.last.link_mapping, l)
  /\ (mc.last.op = "handle" /\ mc.last.outcome = "LinkMappingFailed") =>
       mc.bw = mc.last.pre_bw

\* C29: after any sequence of handle_mapping_request calls of the baseline
\* no substrate node has a negative available_cpu.
C29_BaselineCpuNonNegative ==
  \A n \in Nodes : mc.cpu[n] >= 0

\* ------------------------------------------------- the driver loop
\* C27: under the loop of main.py every accepted mapping of MP_VNE is
\* released on a tick at or after its expire_time: when the loop has ended,
\* no mapping whose expire_time is at or before the last tick the loop ran
\* is still active and holding CPU and bandwidth of the ledger.
C27_DriverReleasesExpired ==
  driver.pc = "done" =>
    \A e \in 1..Len(active_mappings) :
      active_mappings[e].expire_time > driver.current_time - 1

\* ------------------------------------------------- the simulation
\* C30: under VNESimulation.run, after every arrival and departure event
\* every physical node has 0 <= used_resource <= resource and every physical
\* link has 0 <= used_bandwidth <= bandwidth.
C30_UsedWithinCapacity ==
  sim.pc # "idle" =>
    /\ \A n \in PNodes :
         0 <= sim.used_resource[n] /\ sim.used_resource[n] <= pnodes[n].resource
    /\ \A l \in PLinks :
         0 <= sim.used_bandwidth[l] /\ sim.used_bandwidth[l] <= plinks[l].bandwidth

====
